---- MODULE Spec2Model ----
(***************************************************************************)
(* Model of cratedigger/scrape.py: the Wayback Machine URL resolver        *)
(* (find_mp3_urls_from_archive, construct_wayback_url) and the retrying    *)
(* downloader (download_mp3).                                              *)
(*                                                                         *)
(* Strings that the code inspects character by character (URLs) are       *)
(* sequences of one-character strings.  Python's None is the empty tuple.  *)
(***************************************************************************)
EXTENDS Integers, Sequences, FiniteSets, TLC

VARIABLES
    \* ---- download_mp3: arguments
    max_retries,            \* max_retries
    delay_between_retries,  \* delay_between_retries (base delay, seconds)
    force_download,         \* force_download
    \* ---- download_mp3: filesystem
    dirExists,              \* destination_dir exists
    file,                   \* the file at filepath: NoFile or the chunks it holds
    \* ---- download_mp3: locals and control
    pc,                     \* position in download_mp3
    attempt,                \* loop variable of "for attempt in range(max_retries)"
    downloaded,             \* chunks written by the current attempt
    exc,                    \* the exception being handled (None when none)
    sleep_time,             \* argument of the time.sleep in progress
    result,                 \* the returned tuple (None until the call returns)
    \* ---- download_mp3: observation of the call
    file0,                  \* the file at filepath when the call started
    gets,                   \* number of session.get calls issued
    sleeps,                 \* deterministic part of each sleep, in order
    events,                 \* "get" / "sleep" in the order they happened
    outcomes,               \* how each finished attempt ended
    wrote,                  \* the call opened filepath for writing
    emptyBody,              \* an attempt streamed a 2xx body to its end with 0 bytes
    calls,                  \* calls of download_mp3 for this URL and destination so far
    prevResult,             \* what the previous call returned (None for the first)
    complete,               \* the file at filepath is the whole body of a response
                            \* streamed to its end (or was there before the first call)
    forced,                 \* some call so far was made with force_download = True
    \* ---- resolver
    raw_url,                \* url argument of construct_wayback_url
    archive_url,            \* archive_url
    type_prefix,            \* type_prefix
    timestamp,              \* wayback_timestamp (None when no match)
    resolved,               \* value returned by construct_wayback_url
    resolved2,              \* value returned for the resolved URL given back as url
    rpc,                    \* position in the resolver
    \* ---- list_existing_files
    directory,              \* the files under the directory argument (paths below it)
    extensions,             \* the extensions argument (None when not given)
    existing_files,         \* the returned list
    lpc,                    \* position in list_existing_files
    \* ---- relocation: arguments
    variant,                \* which code runs: "cratedigger", "extractor" (the two
                            \* download_spotify_content) or "convert" (copy_audio_files)
    keep_library,           \* keep_library
    flat_structure,         \* flat_structure
    extension,              \* extension argument of copy_audio_files
    \* ---- relocation: filesystem
    lib,                    \* files under default_zotify_dir / source_dir: path -> content
    libExists,              \* that directory exists
    tgt,                    \* files under target_dir: path -> content
    lib0,                   \* lib when the call started
    tgt0,                   \* tgt when the call started
    \* ---- relocation: locals and control
    existing_in_target,     \* existing_in_target
    existing_in_default,    \* existing_in_default
    return_code,            \* return_code of the zotify process
    current_audio_files,    \* current_audio_files
    new_audio_files,        \* new_audio_files
    related_images,         \* related_images
    todo_audio,             \* files the audio loop (or the copy loop) has not reached yet
    todo_images,            \* files the image loop has not reached yet
    processed_audio,        \* processed_audio / moved_audio_files
    processed_images,       \* processed_images / moved_image_files
    skipped_files,          \* skipped_files
    copied_count,           \* copied_count
    ret,                    \* the returned value (None until the call returns)
    moves,                  \* every copy or move attempted: source, destination, outcome
    fpc,                    \* position in the call
    \* ---- the scripts run from the command line
    script,                 \* which file runs as __main__
    spos,                   \* position in the script
    download,               \* scrape.py: args.download
    mp3_links,              \* scrape.py: len(mp3_links)
    link_i,                 \* scrape.py: i, the number of links handled so far
    successful,             \* scrape.py: successful
    failed,                 \* scrape.py: failed
    trace,                  \* scrape.py: the calls, returns and waits of the loop, in order
    keep_ogg,               \* spotify.py: args.keep_ogg
    use_ogg,                \* spotify.py: args.use_ogg
    skip_download,          \* spotify.py: args.skip_download
    url_kind,               \* spotify.py: args.url is "missing", "invalid" or "valid"
    tool_started,           \* spotify.py: download_spotify_content was called
    success,                \* spotify.py: what it returned: "True", "False", or "none"
                            \* when it was not called or did not return
    converted,              \* spotify.py: convert_all_ogg_files was called
    interrupted,            \* a KeyboardInterrupt was raised
    exit_code,              \* exit status of the process (None while it runs)
    message,                \* last thing the interpreter printed at exit (NoMessage if nothing)
    \* ---- OGG to MP3 conversion
    cvariant,               \* which file's functions run: "cratedigger", "extractor", "convert"
    remove_originals,       \* remove_originals / remove_original
    cdir,                   \* files under the directory argument: path -> content
    todo_convert,           \* files of unconverted the loop has not reached yet
    total,                  \* len(unconverted)
    success_count,          \* success_count
    cret,                   \* value returned by the call in progress (None until it returns)
    prev_cret,              \* value the previous convert_all_ogg_files call returned
    encoder_runs,           \* times ffmpeg was started by the call in progress
    ccalls,                 \* calls of convert_all_ogg_files so far
    found,                  \* find_unconverted_files(directory) called after the return
    conversions,            \* one record per convert_ogg_to_mp3 call made since the last
                            \* call of convert_all_ogg_files started
    cpc                     \* position in the conversion

dlvars == <<max_retries, delay_between_retries, force_download, dirExists, file,
            pc, attempt, downloaded, exc, sleep_time, result,
            file0, gets, sleeps, events, outcomes, wrote, emptyBody,
            calls, prevResult, complete, forced>>
rvars == <<raw_url, archive_url, type_prefix, timestamp, resolved, resolved2, rpc>>
lvars == <<directory, extensions, existing_files, lpc>>
fargs == <<variant, keep_library, flat_structure, extension, lib0, tgt0>>
fsnap == <<existing_in_target, existing_in_default>>
fdiff == <<return_code, current_audio_files, new_audio_files, related_images>>
fcount == <<processed_audio, processed_images, skipped_files, copied_count>>
fvars == <<fargs, fsnap, fdiff, fcount, lib, libExists, tgt, todo_audio, todo_images,
           ret, moves, fpc>>
svars == <<script, spos, download, mp3_links, link_i, successful, failed, trace,
           keep_ogg, use_ogg, skip_download, url_kind, tool_started, success, converted,
           interrupted, exit_code, message>>
cvars == <<cvariant, remove_originals, cdir, todo_convert, total, success_count, cret,
           prev_cret, encoder_runs, ccalls, found, conversions, cpc>>
vars == <<dlvars, rvars, lvars, fvars, svars, cvars>>
\* What the steps of one part leave alone: the variables of the other parts
nondl == <<rvars, lvars, fvars, svars, cvars>>
nonr == <<dlvars, lvars, fvars, svars, cvars>>
nonl == <<dlvars, rvars, fvars, svars, cvars>>
nonf == <<dlvars, rvars, lvars, svars, cvars>>
nons == <<dlvars, rvars, lvars, fvars, cvars>>
nonc == <<dlvars, rvars, lvars, fvars, svars>>

None == <<>>

-----------------------------------------------------------------------------
(* Bounds *)
MaxRetries == 3     \* max_retries ranges over 0..MaxRetries
MaxChunks == 2      \* a response body streams at most MaxChunks chunks
MaxDelay == 2       \* delay_between_retries ranges over 1..MaxDelay
MaxCalls == 2       \* download_mp3 is called at most MaxCalls times for one path
MaxFiles == 3       \* files under the source directory, those the tool adds included
MaxTargetFiles == 1 \* files under target_dir when the call starts
MaxLinks == 2       \* scrape.py finds at most MaxLinks links on a page
MaxOggFiles == 2    \* .ogg files under the directory to convert
MaxConvertCalls == 2 \* convert_all_ogg_files is called at most MaxConvertCalls times

-----------------------------------------------------------------------------
(* download_mp3 *)

NoFile == <<"absent">>
\* Non-empty chunks of a response body; "" is an empty (keep-alive) chunk.
Chunks == {"", "a"}
OldContent == <<"old">>
\* str(e) of the exceptions the HTTP client and the filesystem raise.
NetErrors == {"ConnectionError", "HTTPError"}
OsErrors == {"OSError"}
\* random.uniform(0, 2), to whole seconds
Jitters == {0, 2}

\* One call writes one path: filepath = Path(destination_dir) / filename, with the
\* filename given or derived from the URL (lines 142-153).
filepath_str == <<"destination_dir", "/", "filename.mp3">>

Exists(f) == f # NoFile
Size(f) == IF f = NoFile THEN 0 ELSE Len(f)

RECURSIVE Pow2(_)
Pow2(n) == IF n = 0 THEN 1 ELSE 2 * Pow2(n - 1)

\* Mutant of Backoff: the exponent is dropped, every retry waits the base delay.
Backoff_Constant(delay, att) == delay

\* delay_between_retries * (2**attempt), the part of sleep_time without jitter
Backoff(delay, att) == delay * Pow2(att)

\* Mutant of ShouldSkip: the "not" on force_download is lost.
ShouldSkip_ForceInverted(force, f) == force /\ Exists(f) /\ Size(f) > 0

\* if not force_download and filepath.exists() and filepath.stat().st_size > 0
ShouldSkip(force, f) == ~force /\ Exists(f) /\ Size(f) > 0

\* return True, filepath_str, None
SuccessResult == [success |-> TRUE, filepath |-> filepath_str, error |-> None]
\* Mutant of FailedResult: a failure still carries the path.
FailedResult_WithPath(msg) == [success |-> FALSE, filepath |-> filepath_str, error |-> msg]
\* return False, None, error_msg
FailedResult(msg) == [success |-> FALSE, filepath |-> None, error |-> msg]
NetworkErrorMsg(e) == <<"Network error: ", e>>
OtherErrorMsg(e) == <<"Error downloading url: ", e>>
EmptyMsg == <<"Downloaded file is empty">>
MaxRetriesMsg == <<"Maximum retry attempts reached">>

DlInit ==
    /\ max_retries \in -1..MaxRetries
    /\ delay_between_retries \in 1..MaxDelay
    /\ force_download \in BOOLEAN
    /\ file \in {NoFile, <<>>, OldContent}
    /\ dirExists \in BOOLEAN
    /\ Exists(file) => dirExists
    /\ file0 = file
    /\ pc = "mkdir"
    /\ attempt = 0
    /\ downloaded = 0
    /\ exc = None
    /\ sleep_time = 0
    /\ result = None
    /\ gets = 0
    /\ sleeps = <<>>
    /\ events = <<>>
    /\ outcomes = <<>>
    /\ wrote = FALSE
    /\ emptyBody = FALSE
    /\ calls = 1
    /\ prevResult = None
    /\ complete = (Size(file) > 0)
    /\ forced = force_download

\* Path(destination_dir).mkdir(parents=True, exist_ok=True): outside any try, so
\* an OSError (a parent that is a file, no permission) leaves the function.
Mkdir ==
    /\ pc = "mkdir"
    /\ \/ /\ dirExists' = TRUE
          /\ pc' = "check"
          /\ exc' = exc
       \/ /\ ~dirExists
          /\ \E e \in OsErrors : exc' = <<"OSError", e>>
          /\ pc' = "raised"
          /\ dirExists' = dirExists
    /\ UNCHANGED <<max_retries, delay_between_retries, force_download, file,
                   attempt, downloaded, sleep_time, result,
                   file0, gets, sleeps, events, outcomes, wrote, emptyBody>>
    /\ UNCHANGED <<calls, prevResult, complete, forced>>
    /\ UNCHANGED nondl

\* The skip rule, then entry into the retry loop.  exists() and stat() read the
\* file as it is; nothing else writes the path while the call runs.
CheckExisting ==
    /\ pc = "check"
    /\ IF ShouldSkip(force_download, file)
       THEN /\ result' = SuccessResult
            /\ pc' = "done"
       ELSE /\ result' = result
            /\ pc' = "loop"
    /\ UNCHANGED <<max_retries, delay_between_retries, force_download, dirExists, file,
                   attempt, downloaded, exc, sleep_time,
                   file0, gets, sleeps, events, outcomes, wrote, emptyBody>>
    /\ UNCHANGED <<calls, prevResult, complete, forced>>
    /\ UNCHANGED nondl

\* for attempt in range(max_retries): ... ; after the loop, the defensive return.
LoopHead ==
    /\ pc = "loop"
    /\ IF attempt < max_retries
       THEN /\ pc' = "get"
            /\ result' = result
       ELSE /\ pc' = "done"
            /\ result' = FailedResult(MaxRetriesMsg)
    /\ UNCHANGED <<max_retries, delay_between_retries, force_download, dirExists, file,
                   attempt, downloaded, exc, sleep_time,
                   file0, gets, sleeps, events, outcomes, wrote, emptyBody>>
    /\ UNCHANGED <<calls, prevResult, complete, forced>>
    /\ UNCHANGED nondl

\* session.get(url, stream=True, timeout=30); raise_for_status();
\* total_size = int(headers.get("content-length", 0)); downloaded = 0
Get ==
    /\ pc = "get"
    /\ gets' = gets + 1
    /\ events' = Append(events, "get")
    /\ downloaded' = 0
    /\ \/ \E e \in NetErrors :        \* connection error, timeout, non-2xx status
            /\ exc' = <<"RequestException", e>>
            /\ pc' = "except"
       \/ /\ exc' = <<"Exception", "ValueError">>   \* malformed content-length
          /\ pc' = "except"
       \/ /\ exc' = exc               \* 2xx
          /\ pc' = "open"
    /\ UNCHANGED <<max_retries, delay_between_retries, force_download, dirExists, file,
                   attempt, sleep_time, result,
                   file0, sleeps, outcomes, wrote, emptyBody>>
    /\ UNCHANGED <<calls, prevResult, complete, forced>>
    /\ UNCHANGED nondl

\* with filepath.open("wb") as f: creates the file or truncates it.
Open ==
    /\ pc = "open"
    /\ \/ /\ file' = <<>>
          /\ wrote' = TRUE
          /\ complete' = FALSE
          /\ pc' = "stream"
          /\ exc' = exc
       \/ \E e \in OsErrors :
            /\ exc' = <<"Exception", e>>
            /\ pc' = "except"
            /\ UNCHANGED <<file, wrote, complete>>
    /\ UNCHANGED <<max_retries, delay_between_retries, force_download, dirExists,
                   attempt, downloaded, sleep_time, result,
                   file0, gets, sleeps, events, outcomes, emptyBody>>
    /\ UNCHANGED <<calls, prevResult, forced>>
    /\ UNCHANGED nondl

\* for chunk in response.iter_content(chunk_size=8192): if chunk: f.write(chunk)
\* One step per chunk; the stream may also end, break with a network error, or the
\* write may fail.  Leaving the with block closes the file with what was written.
Stream ==
    /\ pc = "stream"
    /\ \/ \E c \in Chunks :
            /\ downloaded < MaxChunks
            /\ IF c # ""
               THEN /\ file' = Append(file, c)
                    /\ downloaded' = downloaded + 1
               ELSE UNCHANGED <<file, downloaded>>
            /\ UNCHANGED <<pc, exc, complete>>
       \/ /\ pc' = "stat"          \* iterator exhausted
          /\ complete' = TRUE
          /\ UNCHANGED <<file, downloaded, exc>>
       \/ \E e \in NetErrors :     \* ChunkedEncodingError, ConnectionError, timeout
            /\ exc' = <<"RequestException", e>>
            /\ pc' = "except"
            /\ UNCHANGED <<file, downloaded, complete>>
       \/ \E e \in OsErrors :      \* f.write raises
            /\ downloaded < MaxChunks
            /\ exc' = <<"Exception", e>>
            /\ pc' = "except"
            /\ UNCHANGED <<file, downloaded, complete>>
    /\ UNCHANGED <<max_retries, delay_between_retries, force_download, dirExists,
                   attempt, sleep_time, result,
                   file0, gets, sleeps, events, outcomes, wrote, emptyBody>>
    /\ UNCHANGED <<calls, prevResult, forced>>
    /\ UNCHANGED nondl

\* Mutant of Stat: an empty file is reported as a success too.
Stat_AcceptEmpty ==
    /\ pc = "stat"
    /\ IF Size(file) >= 0
       THEN /\ result' = SuccessResult
            /\ outcomes' = Append(outcomes, <<"ok">>)
            /\ pc' = "done"
            /\ emptyBody' = emptyBody
       ELSE /\ pc' = "unlink"
            /\ emptyBody' = TRUE
            /\ UNCHANGED <<result, outcomes>>
    /\ UNCHANGED <<max_retries, delay_between_retries, force_download, dirExists, file,
                   attempt, downloaded, exc, sleep_time,
                   file0, gets, sleeps, events, wrote>>
    /\ UNCHANGED <<calls, prevResult, complete, forced>>
    /\ UNCHANGED nondl

\* if filepath.stat().st_size > 0: return True, filepath_str, None
Stat ==
    /\ pc = "stat"
    /\ IF Size(file) > 0
       THEN /\ result' = SuccessResult
            /\ outcomes' = Append(outcomes, <<"ok">>)
            /\ pc' = "done"
            /\ emptyBody' = emptyBody
       ELSE /\ pc' = "unlink"
            /\ emptyBody' = TRUE
            /\ UNCHANGED <<result, outcomes>>
    /\ UNCHANGED <<max_retries, delay_between_retries, force_download, dirExists, file,
                   attempt, downloaded, exc, sleep_time,
                   file0, gets, sleeps, events, wrote>>
    /\ UNCHANGED <<calls, prevResult, complete, forced>>
    /\ UNCHANGED nondl

\* Mutant of Unlink: the empty file is reported but not removed.
Unlink_NoRemove ==
    /\ pc = "unlink"
    /\ result' = FailedResult(EmptyMsg)
    /\ outcomes' = Append(outcomes, <<"empty">>)
    /\ pc' = "done"
    /\ UNCHANGED <<max_retries, delay_between_retries, force_download, dirExists, file,
                   attempt, downloaded, exc, sleep_time,
                   file0, gets, sleeps, events, wrote, emptyBody>>
    /\ UNCHANGED <<calls, prevResult, complete, forced>>
    /\ UNCHANGED nondl

\* filepath.unlink(); return False, None, "Downloaded file is empty"
Unlink ==
    /\ pc = "unlink"
    /\ \/ /\ file' = NoFile
          /\ complete' = FALSE
          /\ result' = FailedResult(EmptyMsg)
          /\ outcomes' = Append(outcomes, <<"empty">>)
          /\ pc' = "done"
          /\ exc' = exc
       \/ \E e \in OsErrors :
            /\ exc' = <<"Exception", e>>
            /\ pc' = "except"
            /\ UNCHANGED <<file, result, outcomes, complete>>
    /\ UNCHANGED <<max_retries, delay_between_retries, force_download, dirExists,
                   attempt, downloaded, sleep_time,
                   file0, gets, sleeps, events, wrote, emptyBody>>
    /\ UNCHANGED <<calls, prevResult, forced>>
    /\ UNCHANGED nondl

\* error_msg of the two handlers
ErrorMsg(x) ==
    IF x[1] = "RequestException" THEN NetworkErrorMsg(x[2]) ELSE OtherErrorMsg(x[2])

\* Mutant of AttemptsRemain: off by one, the last attempt also sleeps.
AttemptsRemain_OffByOne(att, maxr) == att < maxr

\* if attempt < max_retries - 1
AttemptsRemain(att, maxr) == att < maxr - 1

\* Mutant of Except: only a network error is retried, any other exception ends
\* the call at once.
Except_OtherIsTerminal ==
    /\ pc = "except"
    /\ outcomes' = Append(outcomes, exc)
    /\ IF AttemptsRemain(attempt, max_retries) /\ exc[1] = "RequestException"
       THEN /\ \E j \in Jitters :
                 sleep_time' = Backoff(delay_between_retries, attempt) + j
            /\ sleeps' = Append(sleeps, Backoff(delay_between_retries, attempt))
            /\ events' = Append(events, "sleep")
            /\ pc' = "sleep"
            /\ result' = result
       ELSE /\ result' = FailedResult(ErrorMsg(exc))
            /\ pc' = "done"
            /\ UNCHANGED <<sleep_time, sleeps, events>>
    /\ UNCHANGED <<max_retries, delay_between_retries, force_download, dirExists, file,
                   attempt, downloaded, exc,
                   file0, gets, wrote, emptyBody>>
    /\ UNCHANGED <<calls, prevResult, complete, forced>>
    /\ UNCHANGED nondl

\* except requests.exceptions.RequestException / except Exception: the two
\* handlers differ only in the text of error_msg.
Except ==
    /\ pc = "except"
    /\ outcomes' = Append(outcomes, exc)
    /\ IF AttemptsRemain(attempt, max_retries)
       THEN /\ \E j \in Jitters :
                 sleep_time' = Backoff(delay_between_retries, attempt) + j
            /\ sleeps' = Append(sleeps, Backoff(delay_between_retries, attempt))
            /\ events' = Append(events, "sleep")
            /\ pc' = "sleep"
            /\ result' = result
       ELSE /\ result' = FailedResult(ErrorMsg(exc))
            /\ pc' = "done"
            /\ UNCHANGED <<sleep_time, sleeps, events>>
    /\ UNCHANGED <<max_retries, delay_between_retries, force_download, dirExists, file,
                   attempt, downloaded, exc,
                   file0, gets, wrote, emptyBody>>
    /\ UNCHANGED <<calls, prevResult, complete, forced>>
    /\ UNCHANGED nondl

\* time.sleep(sleep_time) returns; the for loop takes the next attempt.
Wake ==
    /\ pc = "sleep"
    /\ attempt' = attempt + 1
    /\ sleep_time' = 0
    /\ exc' = None
    /\ pc' = "loop"
    /\ UNCHANGED <<max_retries, delay_between_retries, force_download, dirExists, file,
                   downloaded, result,
                   file0, gets, sleeps, events, outcomes, wrote, emptyBody>>
    /\ UNCHANGED <<calls, prevResult, complete, forced>>
    /\ UNCHANGED nondl

\* download_mp3 is called again for the same URL and destination (the script is
\* run again over the same link list), with force_download as the caller gives it.
CallAgain ==
    /\ pc = "done"
    /\ calls < MaxCalls
    /\ calls' = calls + 1
    /\ prevResult' = result
    /\ force_download' \in BOOLEAN
    /\ forced' = (forced \/ force_download')
    /\ file0' = file
    /\ pc' = "mkdir"
    /\ attempt' = 0
    /\ downloaded' = 0
    /\ exc' = None
    /\ sleep_time' = 0
    /\ result' = None
    /\ gets' = 0
    /\ sleeps' = <<>>
    /\ events' = <<>>
    /\ outcomes' = <<>>
    /\ wrote' = FALSE
    /\ emptyBody' = FALSE
    /\ UNCHANGED <<max_retries, delay_between_retries, dirExists, file, complete>>
    /\ UNCHANGED nondl

-----------------------------------------------------------------------------
(* Resolver: find_mp3_urls_from_archive and construct_wayback_url *)

\* "https://web.archive.org/web/"
WaybackPrefix ==
    <<"h", "t", "t", "p", "s", ":", "/", "/", "w", "e", "b", ".", "a", "r",
      "c", "h", "i", "v", "e", ".", "o", "r", "g", "/", "w", "e", "b", "/">>
\* "https://web.archive.org"
WaybackHost ==
    <<"h", "t", "t", "p", "s", ":", "/", "/", "w", "e", "b", ".", "a", "r",
      "c", "h", "i", "v", "e", ".", "o", "r", "g">>
\* "/web/"
WebSlash ==
    <<"/", "w", "e", "b", "/">>
\* "http://"
Http ==
    <<"h", "t", "t", "p", ":", "/", "/">>
\* "https://"
Https ==
    <<"h", "t", "t", "p", "s", ":", "/", "/">>
\* ".mp3"
DotMp3 ==
    <<".", "m", "p", "3">>
\* "20210101000000"
Ts2021 ==
    <<"2", "0", "2", "1", "0", "1", "0", "1", "0", "0", "0", "0", "0", "0">>
\* "2019"
Ts2019 ==
    <<"2", "0", "1", "9">>

\* Archive page URLs
\* "https://example.org/web/20210101000000/https://site.com/page.html"
ArchExample ==
    <<"h", "t", "t", "p", "s", ":", "/", "/", "e", "x", "a", "m", "p", "l",
      "e", ".", "o", "r", "g", "/", "w", "e", "b", "/", "2", "0", "2", "1",
      "0", "1", "0", "1", "0", "0", "0", "0", "0", "0", "/", "h", "t", "t",
      "p", "s", ":", "/", "/", "s", "i", "t", "e", ".", "c", "o", "m", "/",
      "p", "a", "g", "e", ".", "h", "t", "m", "l">>
\* "https://web.archive.org/web/2019/http://site.com/p.html"
ArchWayback ==
    <<"h", "t", "t", "p", "s", ":", "/", "/", "w", "e", "b", ".", "a", "r",
      "c", "h", "i", "v", "e", ".", "o", "r", "g", "/", "w", "e", "b", "/",
      "2", "0", "1", "9", "/", "h", "t", "t", "p", ":", "/", "/", "s", "i",
      "t", "e", ".", "c", "o", "m", "/", "p", ".", "h", "t", "m", "l">>
\* "https://example.org/page.html"
ArchNoWeb ==
    <<"h", "t", "t", "p", "s", ":", "/", "/", "e", "x", "a", "m", "p", "l",
      "e", ".", "o", "r", "g", "/", "p", "a", "g", "e", ".", "h", "t", "m",
      "l">>
\* "https://example.org/web/2019im_/p.html"
ArchNoSlash ==
    <<"h", "t", "t", "p", "s", ":", "/", "/", "e", "x", "a", "m", "p", "l",
      "e", ".", "o", "r", "g", "/", "w", "e", "b", "/", "2", "0", "1", "9",
      "i", "m", "_", "/", "p", ".", "h", "t", "m", "l">>
\* "https://example.org/web/https://site.com/"
ArchNoDigits ==
    <<"h", "t", "t", "p", "s", ":", "/", "/", "e", "x", "a", "m", "p", "l",
      "e", ".", "o", "r", "g", "/", "w", "e", "b", "/", "h", "t", "t", "p",
      "s", ":", "/", "/", "s", "i", "t", "e", ".", "c", "o", "m", "/">>
\* "/web/2019/page.html"
ArchNoHost ==
    <<"/", "w", "e", "b", "/", "2", "0", "1", "9", "/", "p", "a", "g", "e",
      ".", "h", "t", "m", "l">>
ArchiveUrls == {ArchExample, ArchWayback, ArchNoWeb, ArchNoSlash, ArchNoDigits, ArchNoHost}

\* Raw href/src values
\* "/foo/bar.mp3"
RawSiteRelative ==
    <<"/", "f", "o", "o", "/", "b", "a", "r", ".", "m", "p", "3">>
\* "https://web.archive.org/web/2019im_/http://site.com/a.mp3"
RawCanonical ==
    <<"h", "t", "t", "p", "s", ":", "/", "/", "w", "e", "b", ".", "a", "r",
      "c", "h", "i", "v", "e", ".", "o", "r", "g", "/", "w", "e", "b", "/",
      "2", "0", "1", "9", "i", "m", "_", "/", "h", "t", "t", "p", ":", "/",
      "/", "s", "i", "t", "e", ".", "c", "o", "m", "/", "a", ".", "m", "p",
      "3">>
\* "/web/2019/http://site.com/a.mp3"
RawPartial ==
    <<"/", "w", "e", "b", "/", "2", "0", "1", "9", "/", "h", "t", "t", "p",
      ":", "/", "/", "s", "i", "t", "e", ".", "c", "o", "m", "/", "a", ".",
      "m", "p", "3">>
\* "http://site.com/a.mp3"
RawAbsolute ==
    <<"h", "t", "t", "p", ":", "/", "/", "s", "i", "t", "e", ".", "c", "o",
      "m", "/", "a", ".", "m", "p", "3">>
\* "http://web.archive.org/web/2019/a.mp3"
RawHttpArchive ==
    <<"h", "t", "t", "p", ":", "/", "/", "w", "e", "b", ".", "a", "r", "c",
      "h", "i", "v", "e", ".", "o", "r", "g", "/", "w", "e", "b", "/", "2",
      "0", "1", "9", "/", "a", ".", "m", "p", "3">>
\* "a.MP3"
RawPageRelative ==
    <<"a", ".", "M", "P", "3">>
\* "//cdn.site.com/a.mp3"
RawProtocolRelative ==
    <<"/", "/", "c", "d", "n", ".", "s", "i", "t", "e", ".", "c", "o", "m",
      "/", "a", ".", "m", "p", "3">>
\* "https://web.archive.org/web/"
RawPrefixOnly ==
    <<"h", "t", "t", "p", "s", ":", "/", "/", "w", "e", "b", ".", "a", "r",
      "c", "h", "i", "v", "e", ".", "o", "r", "g", "/", "w", "e", "b", "/">>
RawUrls == {RawSiteRelative, RawCanonical, RawPartial, RawAbsolute, RawHttpArchive, RawPageRelative, RawProtocolRelative, RawPrefixOnly}

\* The element a link was found in, and the type_prefix the caller passes for it.
Tags == {"source", "audio", "a"}
ImPrefix == <<"i", "m", "_">>
OePrefix == <<"o", "e", "_">>
PrefixFor(tag) == IF tag = "audio" THEN OePrefix ELSE ImPrefix
TypePrefixes == {ImPrefix, OePrefix}
\* timestamp arguments of a direct call (None and "" are both falsy)
Timestamps == {None, Ts2019, Ts2021}

Digits == {"0", "1", "2", "3", "4", "5", "6", "7", "8", "9"}

SetMin(S) == CHOOSE x \in S : \A y \in S : x <= y

\* s[i:].startswith(p), i counted from 1
StartsWithAt(s, i, p) ==
    /\ i + Len(p) - 1 <= Len(s)
    /\ SubSeq(s, i, i + Len(p) - 1) = p

\* str.startswith
StartsWith(s, p) == StartsWithAt(s, 1, p)

\* str.lower, on the letters the model's URLs and file names contain
LowerChar(c) == CASE c = "M" -> "m" [] c = "P" -> "p" [] c = "O" -> "o" [] c = "G" -> "g"
                  [] OTHER -> c
Lower(s) == [k \in 1..Len(s) |-> LowerChar(s[k])]

\* re.compile(r"\.mp3$", re.IGNORECASE) / src.lower().endswith(".mp3")
EndsWithMp3(s) ==
    /\ Len(s) >= Len(DotMp3)
    /\ SubSeq(Lower(s), Len(s) - Len(DotMp3) + 1, Len(s)) = DotMp3

\* First index >= i of s that holds no character of C (Len(s)+1 when none): the
\* end of a greedy run C+ or C* that starts at i.
RECURSIVE RunEnd(_, _, _)
RunEnd(s, i, C) == IF i <= Len(s) /\ s[i] \in C THEN RunEnd(s, i + 1, C) ELSE i

\* Mutant of TimestampMatchAt: the "/" that closes the digits is not required.
TimestampMatchAt_NoSlash(s, i) ==
    /\ StartsWithAt(s, i, WebSlash)
    /\ RunEnd(s, i + Len(WebSlash), Digits) > i + Len(WebSlash)

\* r"/web/(\d+)/" matches at position i of s
TimestampMatchAt(s, i) ==
    LET d == i + Len(WebSlash)
        e == RunEnd(s, d, Digits)
    IN  /\ StartsWithAt(s, i, WebSlash)
        /\ e > d
        /\ e <= Len(s)
        /\ s[e] = "/"

\* timestamp_match = re.search(r"/web/(\d+)/", archive_url)
\* wayback_timestamp = timestamp_match.group(1) if timestamp_match else None
ExtractTimestamp(s) ==
    LET M == {i \in 1..Len(s) : TimestampMatchAt(s, i)}
    IN  IF M = {} THEN None
        ELSE LET d == SetMin(M) + Len(WebSlash)
             IN  SubSeq(s, d, RunEnd(s, d, Digits) - 1)

\* Length of the scheme "https?://" at position i of s, 0 when there is none
SchemeLenAt(s, i) ==
    IF StartsWithAt(s, i, Https) THEN Len(Https)
    ELSE IF StartsWithAt(s, i, Http) THEN Len(Http)
    ELSE 0

\* r"https?://[^/]+" matches at position i of s
BaseUrlMatchAt(s, i) ==
    /\ SchemeLenAt(s, i) > 0
    /\ i + SchemeLenAt(s, i) <= Len(s)
    /\ s[i + SchemeLenAt(s, i)] # "/"

NonSlash(s) == {s[k] : k \in 1..Len(s)} \ {"/"}

\* base_url_match = re.search(r"https?://[^/]+", archive_url); group(0), or None
BaseUrlMatch(s) ==
    LET M == {i \in 1..Len(s) : BaseUrlMatchAt(s, i)}
    IN  IF M = {} THEN None
        ELSE LET i == SetMin(M)
             IN  SubSeq(s, i, RunEnd(s, i + SchemeLenAt(s, i), NonSlash(s)) - 1)

\* Mutant of construct_wayback_url: the test for the full archive prefix is missing.
construct_wayback_url_NoPrefixTest(url, arch, ts, prefix) ==
    IF ts = None THEN url
    ELSE IF StartsWith(url, WebSlash) THEN WaybackHost \o url
    ELSE IF StartsWith(url, <<"/">>) THEN
        IF BaseUrlMatch(arch) # None
        THEN WaybackPrefix \o ts \o prefix \o <<"/">> \o BaseUrlMatch(arch) \o url
        ELSE WaybackPrefix \o ts \o prefix \o <<"/">> \o Tail(url)
    ELSE WaybackPrefix \o ts \o prefix \o <<"/">> \o url

\* Mutant of construct_wayback_url: the test for a leading "/" comes before the
\* test for a leading "/web/".
construct_wayback_url_SlashFirst(url, arch, ts, prefix) ==
    IF ts = None THEN url
    ELSE IF StartsWith(url, WaybackPrefix) THEN url
    ELSE IF StartsWith(url, <<"/">>) THEN
        IF BaseUrlMatch(arch) # None
        THEN WaybackPrefix \o ts \o prefix \o <<"/">> \o BaseUrlMatch(arch) \o url
        ELSE WaybackPrefix \o ts \o prefix \o <<"/">> \o Tail(url)
    ELSE IF StartsWith(url, WebSlash) THEN WaybackHost \o url
    ELSE WaybackPrefix \o ts \o prefix \o <<"/">> \o url

\* construct_wayback_url(url, archive_url, timestamp, type_prefix)
construct_wayback_url(url, arch, ts, prefix) ==
    IF ts = None THEN url
    ELSE IF StartsWith(url, WaybackPrefix) THEN url
    ELSE IF StartsWith(url, WebSlash) THEN WaybackHost \o url
    ELSE IF StartsWith(url, <<"/">>) THEN
        IF BaseUrlMatch(arch) # None
        THEN WaybackPrefix \o ts \o prefix \o <<"/">> \o BaseUrlMatch(arch) \o url
        ELSE WaybackPrefix \o ts \o prefix \o <<"/">> \o Tail(url)
    ELSE WaybackPrefix \o ts \o prefix \o <<"/">> \o url

RInit ==
    /\ archive_url \in ArchiveUrls
    /\ raw_url = None
    /\ type_prefix = None
    /\ timestamp = None
    /\ resolved = None
    /\ resolved2 = None
    /\ rpc = "start"

\* find_mp3_urls_from_archive, lines 38-39: the timestamp of the page
FindTimestamp ==
    /\ rpc = "start"
    /\ timestamp' = ExtractTimestamp(archive_url)
    /\ rpc' = "links"
    /\ UNCHANGED <<raw_url, archive_url, type_prefix, resolved, resolved2>>
    /\ UNCHANGED nonr

\* find_mp3_urls_from_archive, lines 45-65: one link of the page whose src/href
\* ends in .mp3 is resolved with the prefix of its element.
FindLink ==
    /\ rpc = "links"
    /\ \E tag \in Tags, src \in RawUrls :
         /\ EndsWithMp3(src)
         /\ raw_url' = src
         /\ type_prefix' = PrefixFor(tag)
         /\ resolved' = construct_wayback_url(src, archive_url, timestamp, PrefixFor(tag))
    /\ resolved2' = None
    /\ UNCHANGED <<archive_url, timestamp, rpc>>
    /\ UNCHANGED nonr

\* construct_wayback_url called on its own, with any arguments
DirectCall ==
    /\ rpc = "start"
    /\ \E u \in RawUrls, ts \in Timestamps, p \in TypePrefixes :
         /\ raw_url' = u
         /\ timestamp' = ts
         /\ type_prefix' = p
         /\ resolved' = construct_wayback_url(u, archive_url, ts, p)
    /\ rpc' = "called"
    /\ UNCHANGED <<archive_url, resolved2>>
    /\ UNCHANGED nonr

\* construct_wayback_url called again on the URL it returned, with the same
\* archive_url, timestamp and type_prefix
Reresolve ==
    /\ rpc \in {"links", "called"}
    /\ raw_url # None
    /\ resolved2 = None
    /\ resolved2' = construct_wayback_url(resolved, archive_url, timestamp, type_prefix)
    /\ UNCHANGED <<raw_url, archive_url, type_prefix, timestamp, resolved, rpc>>
    /\ UNCHANGED nonr

-----------------------------------------------------------------------------
(* Files and directories: names are sequences of characters, a path below a   *)
(* directory is the sequence of the names leading to the file.                *)

\* File names
AMp3 == <<"a", ".", "m", "p", "3">>
BOgg == <<"b", ".", "o", "g", "g">>
B1Ogg == <<"b", "_", "1", ".", "o", "g", "g">>
B2Ogg == <<"b", "_", "2", ".", "o", "g", "g">>
CoverJpg == <<"c", "o", "v", "e", "r", ".", "j", "p", "g">>
XMP3 == <<"x", ".", "M", "P", "3">>
NTxt == <<"n", ".", "t", "x", "t">>
Mp3NoDot == <<"m", "p", "3">>
\* Directory names
DirA == <<"A">>
DirB == <<"B">>
DirDotMp3 == <<"d", ".", "m", "p", "3">>
\* Extensions
ExtOgg == <<".", "o", "g", "g">>
ExtMp3 == <<".", "m", "p", "3">>
ExtJpg == <<".", "j", "p", "g">>
ExtJpeg == <<".", "j", "p", "e", "g">>
ExtPng == <<".", "p", "n", "g">>
ExtMP3Upper == <<".", "M", "P", "3">>
\* extensions = [".ogg", ".mp3", ".jpg", ".jpeg", ".png"] when not given
DefaultExtensions == <<ExtOgg, ExtMp3, ExtJpg, ExtJpeg, ExtPng>>
audio_extensions == <<ExtOgg, ExtMp3>>
image_extensions == <<ExtJpg, ExtJpeg, ExtPng>>

\* s.endswith(suffix)
EndsWith(s, suffix) ==
    /\ Len(s) >= Len(suffix)
    /\ SubSeq(s, Len(s) - Len(suffix) + 1, Len(s)) = suffix

\* any(file.lower().endswith(ext) for ext in extensions)
HasExtension(file_name, exts) ==
    \E i \in 1..Len(exts) : EndsWith(Lower(file_name), exts[i])

\* A set as a list, in some order
RECURSIVE SetToSeq(_)
SetToSeq(S) ==
    IF S = {} THEN <<>>
    ELSE LET x == CHOOSE y \in S : TRUE IN <<x>> \o SetToSeq(S \ {x})

RECURSIVE ConcatAll(_)
ConcatAll(ss) == IF ss = <<>> THEN <<>> ELSE Head(ss) \o ConcatAll(Tail(ss))

IsPrefix(d, p) == Len(d) <= Len(p) /\ SubSeq(p, 1, Len(d)) = d
\* The files directly in directory root, and its subdirectories
FilesIn(files, root) == {p \in files : Len(p) = Len(root) + 1 /\ IsPrefix(root, p)}
DirsIn(files, root) ==
    {SubSeq(p, 1, Len(root) + 1) : p \in {q \in files : Len(q) > Len(root) + 1 /\ IsPrefix(root, q)}}

\* Mutant of os_walk: only the top directory is visited.
os_walk_TopOnly(files, root) ==
    << [root |-> root, files |-> SetToSeq({p[Len(root) + 1] : p \in FilesIn(files, root)})] >>

\* os.walk(directory): top-down, one (root, files) entry per directory of the tree
RECURSIVE os_walk(_, _)
os_walk(files, root) ==
    LET here == [root |-> root,
                 files |-> SetToSeq({p[Len(root) + 1] : p \in FilesIn(files, root)})]
        subs == SetToSeq(DirsIn(files, root))
    IN  <<here>> \o ConcatAll([k \in 1..Len(subs) |-> os_walk(files, subs[k])])

\* list_existing_files(directory, extensions): the paths, in walk order, of the
\* files whose lowercased name ends with one of the extensions
list_existing_files(files, exts) ==
    LET w == os_walk(files, <<>>)
        Keep(file_name) == HasExtension(file_name, exts)
        Entry(e) == LET m == SelectSeq(e.files, Keep)
                    IN  [i \in 1..Len(m) |-> e.root \o <<m[i]>>]
    IN  ConcatAll([k \in 1..Len(w) |-> Entry(w[k])])

\* The trees list_existing_files is applied to: files at depth 0, 1 and 2, names
\* in upper case, names without a matching extension, a directory named like a
\* matching file
ListUniverse ==
    { <<AMp3>>, <<NTxt>>, <<DirA, BOgg>>, <<DirA, XMP3>>, <<DirA, DirB, CoverJpg>>,
      <<DirA, DirB, Mp3NoDot>>, <<DirDotMp3, NTxt>> }
ExtensionArgs == {None, audio_extensions, <<ExtMp3>>, <<ExtMP3Upper>>}

LInit ==
    /\ directory \in SUBSET ListUniverse
    /\ extensions = None
    /\ existing_files = <<>>
    /\ lpc = "start"

\* One call of list_existing_files
ListFiles ==
    /\ lpc = "start"
    /\ \E exts \in ExtensionArgs :
         /\ extensions' = exts
         /\ existing_files' = list_existing_files(directory,
                                  IF exts = None THEN DefaultExtensions ELSE exts)
    /\ lpc' = "listed"
    /\ UNCHANGED directory
    /\ UNCHANGED nonl

\* The variables of list_existing_files while another part runs
LIdle ==
    /\ directory = {}
    /\ extensions = None
    /\ existing_files = <<>>
    /\ lpc = "idle"

-----------------------------------------------------------------------------
(* Relocation of files: download_spotify_content (cratedigger/spotify.py and  *)
(* extractor/spotify.py) and copy_audio_files (extractor/convert.py)          *)

\* "Zotify Music", the name of default_zotify_dir
LibRootName == <<"Z", "o", "t", "i", "f", "y", " ", "M", "u", "s", "i", "c">>
\* "cover."
CoverDot == <<"c", "o", "v", "e", "r", ".">>
\* "Zotify Music-cover.jpg"
RootCoverFlat == <<"Z", "o", "t", "i", "f", "y", " ", "M", "u", "s", "i", "c", "-", "c", "o", "v", "e", "r", ".", "j", "p", "g">>

\* Files the source directory can hold, and files the target can hold at the start
LibUniverse ==
    { <<AMp3>>, <<BOgg>>, <<CoverJpg>>, <<DirA, BOgg>>, <<DirA, CoverJpg>>, <<DirA, XMP3>> }
TargetUniverse == { <<BOgg>>, <<B1Ogg>>, <<CoverJpg>> }
CopyExtensions == {ExtMp3, ExtOgg, ExtMP3Upper}

\* What a file holds: a file of the library, a file that was in the target
\* before, or the incomplete copy a failed copy leaves behind
LibContent(p) == <<"library", p>>
TargetContent(p) == <<"target", p>>
PartialContent(p) == <<"partial", p>>
NoFiles == [p \in {} |-> None]

Put(tree, p, c) == [q \in (DOMAIN tree) \cup {p} |-> IF q = p THEN c ELSE tree[q]]
Remove(tree, p) == [q \in (DOMAIN tree) \ {p} |-> tree[q]]
\* Path.exists(): a file at p, or a directory p
PathExists(tree, p) ==
    \/ p \in DOMAIN tree
    \/ \E q \in DOMAIN tree : Len(q) > Len(p) /\ IsPrefix(p, q)

\* set(list_existing_files(...))
ListedSet(tree, exts) ==
    LET l == list_existing_files(DOMAIN tree, exts) IN {l[i] : i \in 1..Len(l)}

\* Path(p).name and Path(p).parent.name (the directory itself for a top-level file)
Basename(p) == p[Len(p)]
ParentDir(p) == SubSeq(p, 1, Len(p) - 1)
ParentName(p) == IF Len(p) = 1 THEN LibRootName ELSE p[Len(p) - 1]

\* str.split(".")
RECURSIVE SplitDot(_)
SplitDot(name) ==
    IF \A k \in 1..Len(name) : name[k] # "."
    THEN <<name>>
    ELSE LET i == SetMin({k \in 1..Len(name) : name[k] = "."})
         IN  <<SubSeq(name, 1, i - 1)>> \o SplitDot(SubSeq(name, i + 1, Len(name)))

\* Path(file).suffix and Path(file).stem: the suffix starts at the last dot, unless
\* that dot is the first or the last character of the name
LastDot(name) == IF \A k \in 1..Len(name) : name[k] # "." THEN 0
                 ELSE CHOOSE i \in 1..Len(name) :
                          name[i] = "." /\ \A k \in (i + 1)..Len(name) : name[k] # "."
PathSuffix(name) ==
    IF LastDot(name) <= 1 \/ LastDot(name) = Len(name) THEN <<>>
    ELSE SubSeq(name, LastDot(name), Len(name))
PathStem(name) == SubSeq(name, 1, Len(name) - Len(PathSuffix(name)))

\* str(counter)
RECURSIVE IntStr(_)
IntStr(n) ==
    LET d == <<"0", "1", "2", "3", "4", "5", "6", "7", "8", "9">>
    IN  IF n < 10 THEN <<d[n + 1]>> ELSE IntStr(n \div 10) \o <<d[(n % 10) + 1]>>

Variants == {"cratedigger", "extractor", "convert"}

\* How shutil.copy2 and shutil.move can end: done; raised with nothing written;
\* raised leaving an incomplete destination (the source is still there)
Outcomes == {"ok", "raised", "partial"}
TgtAfter(t, l, src, dest, o) ==
    CASE o = "ok" -> Put(t, dest, l[src])
      [] o = "partial" -> Put(t, dest, PartialContent(src))
      [] OTHER -> t
\* Mutant of LibAfter: a copy takes its source away as a move does.
LibAfter_AlwaysRemoves(l, src, isMove, o) == IF o = "ok" THEN Remove(l, src) ELSE l

LibAfter(l, src, isMove, o) == IF isMove /\ o = "ok" THEN Remove(l, src) ELSE l
\* One entry of moves: what was copied or moved where, how it ended, and whether
\* the destination was free at that moment; for copy_audio_files also the paths
\* the target held at that moment
Move(src, dest, o, t) ==
    [src |-> src, dest |-> dest, outcome |-> o, free |-> ~PathExists(t, dest)]
Copy(src, dest, o, t) ==
    [src |-> src, dest |-> dest, outcome |-> o, free |-> ~PathExists(t, dest),
     taken |-> DOMAIN t]

\* Mutant of newly_appeared: the snapshot taken before is not subtracted.
newly_appeared_NoDifference(before, after) == after

\* new_audio_files = current_audio_files - existing_in_default
newly_appeared(before, after) == after \ before

\* Mutant of FlatImageName: the image keeps its own name.
FlatImageName_OwnName(p) == Basename(p)

\* The name a cover image gets in the flat layout
FlatImageName(p) ==
    IF StartsWith(Basename(p), CoverDot)
    THEN ParentName(p) \o <<"-">> \o SplitDot(Basename(p))[1] \o <<".">> \o SplitDot(Basename(p))[2]
    ELSE ParentName(p) \o <<"-">> \o Basename(p)

\* The while loop of copy_audio_files: f"{name}_{counter}{ext}" for the first
\* counter, from the given one, whose name is free in the target
RECURSIVE NumberedName(_, _, _)
NumberedName(t, file_name, counter) ==
    LET candidate == PathStem(file_name) \o <<"_">> \o IntStr(counter) \o PathSuffix(file_name)
    IN  IF PathExists(t, <<candidate>>)
        THEN NumberedName(t, file_name, counter + 1)
        ELSE candidate

\* Mutant of target_filename: the name is not checked against the target.
target_filename_Unchecked(t, file_name) == file_name

\* target_filename: the file's own name, or the numbered name when that is taken
target_filename(t, file_name) ==
    IF PathExists(t, <<file_name>>) THEN NumberedName(t, file_name, 1) ELSE file_name

FInit ==
    /\ variant \in Variants
    /\ keep_library \in BOOLEAN
    /\ flat_structure \in BOOLEAN
    \* the extractor's download_spotify_content moves into the nested layout;
    \* copy_audio_files copies into the flat one
    /\ variant = "extractor" => (~keep_library /\ ~flat_structure)
    /\ variant = "convert" => (keep_library /\ flat_structure)
    /\ extension \in CopyExtensions \cup {None}
    /\ (variant = "convert") <=> (extension # None)
    /\ \E S \in SUBSET LibUniverse :
         /\ Cardinality(S) <= MaxFiles
         /\ lib = [p \in S |-> LibContent(p)]
    /\ libExists \in BOOLEAN
    /\ lib # NoFiles => libExists
    /\ \E S \in SUBSET TargetUniverse :
         /\ Cardinality(S) <= MaxTargetFiles
         /\ tgt = [p \in S |-> TargetContent(p)]
    /\ lib0 = lib
    /\ tgt0 = tgt
    /\ existing_in_target = {}
    /\ existing_in_default = {}
    /\ return_code = None
    /\ current_audio_files = {}
    /\ new_audio_files = {}
    /\ related_images = {}
    /\ todo_audio = {}
    /\ todo_images = {}
    /\ processed_audio = 0
    /\ processed_images = 0
    /\ skipped_files = 0
    /\ copied_count = 0
    /\ ret = None
    /\ moves = {}
    /\ fpc = "start"

\* The two snapshots taken before the tool runs
SnapshotBefore ==
    /\ fpc = "start"
    /\ variant \in {"cratedigger", "extractor"}
    /\ existing_in_target' = ListedSet(tgt, DefaultExtensions)
    /\ existing_in_default' =
          IF ~libExists THEN {} ELSE ListedSet(lib, DefaultExtensions)
    /\ fpc' = "tool"
    /\ UNCHANGED <<fargs, fdiff, fcount, lib, libExists, tgt, todo_audio, todo_images,
                   ret, moves>>
    /\ UNCHANGED nonf

\* The zotify process runs to its end: it adds files under its default directory
\* and exits with a return code; a non-zero code (or a failure to run it) makes
\* the call return False.
RunTool ==
    /\ fpc = "tool"
    /\ \E added \in SUBSET (LibUniverse \ DOMAIN lib), rc \in {0, 1} :
         /\ Cardinality(DOMAIN lib) + Cardinality(added) <= MaxFiles
         /\ lib' = [q \in (DOMAIN lib) \cup added |-> LibContent(q)]
         /\ libExists' = (libExists \/ added # {})
         /\ return_code' = rc
         /\ IF rc # 0
            THEN ret' = FALSE /\ fpc' = "done"
            ELSE ret' = ret /\ fpc' = "diff"
    /\ UNCHANGED <<current_audio_files, new_audio_files, related_images>>
    /\ UNCHANGED <<fargs, fsnap, fcount, tgt, todo_audio, todo_images, moves>>
    /\ UNCHANGED nonf

\* The snapshot taken after, the new audio files and the images that go with them
Diff ==
    /\ fpc = "diff"
    /\ IF ~libExists
       THEN /\ ret' = FALSE
            /\ fpc' = "done"
            /\ UNCHANGED <<current_audio_files, new_audio_files, related_images,
                           todo_audio, todo_images>>
       ELSE LET cur == ListedSet(lib, audio_extensions)
                new == newly_appeared(existing_in_default, cur)
                all_image_files == ListedSet(lib, image_extensions)
                artist_album_dirs == {ParentDir(a) : a \in new}
                rel == {i \in all_image_files :
                           \/ ParentDir(i) \in artist_album_dirs
                           \/ StartsWith(Basename(i), CoverDot)}
            IN  /\ current_audio_files' = cur
                /\ new_audio_files' = new
                /\ IF new = {}
                   THEN /\ ret' = FALSE
                        /\ fpc' = "done"
                        /\ UNCHANGED <<related_images, todo_audio, todo_images>>
                   ELSE /\ related_images' = rel
                        /\ todo_audio' = new
                        /\ todo_images' = rel
                        /\ ret' = ret
                        /\ fpc' = "audio"
    /\ return_code' = return_code
    /\ UNCHANGED <<fargs, fsnap, fcount, lib, libExists, tgt, moves>>
    /\ UNCHANGED nonf

\* cratedigger: one turn of "for audio_file in new_audio_files"
RelocateAudio ==
    /\ fpc = "audio"
    /\ variant = "cratedigger"
    /\ \E f \in todo_audio :
         LET dest == IF flat_structure THEN <<Basename(f)>> ELSE f
         IN  /\ IF PathExists(tgt, dest)
                THEN /\ skipped_files' = skipped_files + 1
                     /\ UNCHANGED <<lib, tgt, processed_audio, moves>>
                ELSE \E o \in Outcomes :
                       /\ tgt' = TgtAfter(tgt, lib, f, dest, o)
                       /\ lib' = LibAfter(lib, f, ~keep_library, o)
                       /\ processed_audio' = processed_audio + (IF o = "ok" THEN 1 ELSE 0)
                       /\ moves' = moves \cup {Move(f, dest, o, tgt)}
                       /\ skipped_files' = skipped_files
             /\ todo_audio' = todo_audio \ {f}
             /\ fpc' = IF todo_audio \ {f} # {} THEN "audio"
                       ELSE IF todo_images # {} THEN "images" ELSE "return"
    /\ UNCHANGED <<processed_images, copied_count>>
    /\ UNCHANGED <<fargs, fsnap, fdiff, libExists, todo_images, ret>>
    /\ UNCHANGED nonf

\* cratedigger: one turn of "for image_file in related_images"
RelocateImage ==
    /\ fpc = "images"
    /\ variant = "cratedigger"
    /\ \E f \in todo_images :
         LET dest == IF flat_structure THEN <<FlatImageName(f)>> ELSE f
         IN  /\ IF PathExists(tgt, dest)
                THEN UNCHANGED <<lib, tgt, processed_images, moves>>
                ELSE \E o \in Outcomes :
                       /\ tgt' = TgtAfter(tgt, lib, f, dest, o)
                       /\ lib' = LibAfter(lib, f, ~keep_library, o)
                       /\ processed_images' = processed_images + (IF o = "ok" THEN 1 ELSE 0)
                       /\ moves' = moves \cup {Move(f, dest, o, tgt)}
             /\ todo_images' = todo_images \ {f}
             /\ fpc' = IF todo_images \ {f} # {} THEN "images" ELSE "return"
    /\ UNCHANGED <<processed_audio, skipped_files, copied_count>>
    /\ UNCHANGED <<fargs, fsnap, fdiff, libExists, todo_audio, ret>>
    /\ UNCHANGED nonf

\* cratedigger: the summary and the returned value
Summarize ==
    /\ fpc = "return"
    /\ variant = "cratedigger"
    /\ ret' = IF processed_audio > 0 \/ processed_images > 0 THEN TRUE
              ELSE IF skipped_files > 0 THEN TRUE
              ELSE FALSE
    /\ fpc' = "done"
    /\ UNCHANGED <<fargs, fsnap, fdiff, fcount, lib, libExists, tgt, todo_audio,
                   todo_images, moves>>
    /\ UNCHANGED nonf

\* extractor: one turn of "for audio_file in new_audio_files": the file is moved
\* to its relative path under the target, whatever is there
MoveAudio ==
    /\ fpc = "audio"
    /\ variant = "extractor"
    /\ \E f \in todo_audio, o \in Outcomes :
         /\ tgt' = TgtAfter(tgt, lib, f, f, o)
         /\ lib' = LibAfter(lib, f, TRUE, o)
         /\ processed_audio' = processed_audio + (IF o = "ok" THEN 1 ELSE 0)
         /\ moves' = moves \cup {Move(f, f, o, tgt)}
         /\ todo_audio' = todo_audio \ {f}
         /\ fpc' = IF todo_audio \ {f} # {} THEN "audio"
                   ELSE IF todo_images # {} THEN "images" ELSE "return"
    /\ UNCHANGED <<processed_images, skipped_files, copied_count>>
    /\ UNCHANGED <<fargs, fsnap, fdiff, libExists, todo_images, ret>>
    /\ UNCHANGED nonf

\* extractor: one turn of "for image_file in all_image_files" that moves an image
MoveImage ==
    /\ fpc = "images"
    /\ variant = "extractor"
    /\ \E f \in todo_images, o \in Outcomes :
         /\ tgt' = TgtAfter(tgt, lib, f, f, o)
         /\ lib' = LibAfter(lib, f, TRUE, o)
         /\ processed_images' = processed_images + (IF o = "ok" THEN 1 ELSE 0)
         /\ moves' = moves \cup {Move(f, f, o, tgt)}
         /\ todo_images' = todo_images \ {f}
         /\ fpc' = IF todo_images \ {f} # {} THEN "images" ELSE "return"
    /\ UNCHANGED <<processed_audio, skipped_files, copied_count>>
    /\ UNCHANGED <<fargs, fsnap, fdiff, libExists, todo_audio, ret>>
    /\ UNCHANGED nonf

\* extractor: the target is listed again and compared with the first snapshot
CheckTarget ==
    /\ fpc = "return"
    /\ variant = "extractor"
    /\ ret' = (newly_appeared(existing_in_target, ListedSet(tgt, DefaultExtensions)) # {})
    /\ fpc' = "done"
    /\ UNCHANGED <<fargs, fsnap, fdiff, fcount, lib, libExists, tgt, todo_audio,
                   todo_images, moves>>
    /\ UNCHANGED nonf

\* copy_audio_files: the walk over source_dir finds the files with the extension
CopyStart ==
    /\ fpc = "start"
    /\ variant = "convert"
    /\ todo_audio' = {f \in DOMAIN lib : EndsWith(Lower(Basename(f)), Lower(extension))}
    /\ fpc' = IF todo_audio' # {} THEN "copy" ELSE "return"
    /\ UNCHANGED <<fargs, fsnap, fdiff, fcount, lib, libExists, tgt, todo_images,
                   ret, moves>>
    /\ UNCHANGED nonf

\* copy_audio_files: one matching file is given a free name and copied
CopyStep ==
    /\ fpc = "copy"
    /\ \E f \in todo_audio, o \in Outcomes :
         LET dest == <<target_filename(tgt, Basename(f))>>
         IN  /\ tgt' = TgtAfter(tgt, lib, f, dest, o)
             /\ copied_count' = copied_count + (IF o = "ok" THEN 1 ELSE 0)
             /\ moves' = moves \cup {Copy(f, dest, o, tgt)}
             /\ todo_audio' = todo_audio \ {f}
             /\ fpc' = IF todo_audio \ {f} # {} THEN "copy" ELSE "return"
    /\ UNCHANGED <<processed_audio, processed_images, skipped_files>>
    /\ UNCHANGED <<fargs, fsnap, fdiff, lib, libExists, todo_images, ret>>
    /\ UNCHANGED nonf

\* copy_audio_files: return copied_count
CopyReturn ==
    /\ fpc = "return"
    /\ variant = "convert"
    /\ ret' = copied_count
    /\ fpc' = "done"
    /\ UNCHANGED <<fargs, fsnap, fdiff, fcount, lib, libExists, tgt, todo_audio,
                   todo_images, moves>>
    /\ UNCHANGED nonf

\* The variables of the relocation while another part runs
FIdle ==
    /\ variant = "none"
    /\ keep_library = FALSE
    /\ flat_structure = FALSE
    /\ extension = None
    /\ lib = NoFiles
    /\ libExists = FALSE
    /\ tgt = NoFiles
    /\ lib0 = NoFiles
    /\ tgt0 = NoFiles
    /\ existing_in_target = {}
    /\ existing_in_default = {}
    /\ return_code = None
    /\ current_audio_files = {}
    /\ new_audio_files = {}
    /\ related_images = {}
    /\ todo_audio = {}
    /\ todo_images = {}
    /\ processed_audio = 0
    /\ processed_images = 0
    /\ skipped_files = 0
    /\ copied_count = 0
    /\ ret = None
    /\ moves = {}
    /\ fpc = "idle"

-----------------------------------------------------------------------------
(* OGG to MP3 conversion: find_unconverted_files, convert_ogg_to_mp3 and       *)
(* convert_all_ogg_files of cratedigger/spotify.py and extractor/spotify.py,   *)
(* and find_unconverted_files, convert_ogg_to_mp3 and main of convert.py       *)

BMp3 == <<"b", ".", "m", "p", "3">>
BOGGUpper == <<"b", ".", "O", "G", "G">>
\* st_size below which the spotify variants reject the encoder's output
MinMp3Size == 1024
OggContent(p) == <<"ogg", p>>
Mp3Content(size) == <<"mp3", size>>
\* An .mp3 that is in the directory before the first call: left by an earlier
\* run, of any size (here a short one)
OldMp3 == Mp3Content(MinMp3Size - 1)

\* The files the directory can hold at the start: .ogg files in lower and upper
\* case and in a subdirectory, a file named ".ogg", and the .mp3 of some of them
OggUniverse == { <<BOgg>>, <<BOGGUpper>>, <<DirA, BOgg>>, <<ExtOgg>> }
Mp3Universe == { <<BMp3>>, <<DirA, BMp3>> }

\* f.lower().endswith(".ogg")
IsOggName(name) == EndsWith(Lower(name), ExtOgg)
\* file_path[:-4] + ".mp3" (the spotify variants)
SliceMp3(name) == SubSeq(name, 1, Len(name) - 4) \o ExtMp3
\* Path(file_path).with_suffix(".mp3") (convert.py)
WithSuffixMp3(name) == PathStem(name) \o ExtMp3
Mp3Name(v, name) == IF v = "convert" THEN WithSuffixMp3(name) ELSE SliceMp3(name)
\* output_path of convert_ogg_to_mp3, mp3_path of find_unconverted_files
Mp3PathOf(v, p) == ParentDir(p) \o <<Mp3Name(v, Basename(p))>>

\* find_unconverted_files(directory): in walk order, the .ogg files without a
\* .mp3 of the same name in the same directory
find_unconverted_files(v, tree) ==
    LET w == os_walk(DOMAIN tree, <<>>)
        Entry(e) ==
            LET Unconverted(f) == IsOggName(f) /\ ~PathExists(tree, e.root \o <<Mp3Name(v, f)>>)
                m == SelectSeq(e.files, Unconverted)
            IN  [i \in 1..Len(m) |-> e.root \o <<m[i]>>]
    IN  ConcatAll([k \in 1..Len(w) |-> Entry(w[k])])

\* How one run of ffmpeg can end: exit 0 with an output of a reasonable size, with
\* a short output, or without any; a non-zero exit (CalledProcessError) without
\* output or leaving an incomplete one; ffmpeg cannot be started (FileNotFoundError)
EncoderOutcomes == {"ok_valid", "ok_small", "ok_missing", "failed", "failed_partial", "not_found"}
EncoderExitedZero(enc) == enc \in {"ok_valid", "ok_small", "ok_missing"}
\* The directory after ffmpeg ran with output path out ("-y": an existing file is replaced)
AfterEncoder(tree, out, enc) ==
    CASE enc = "ok_valid" -> Put(tree, out, Mp3Content(MinMp3Size))
      [] enc \in {"ok_small", "failed_partial"} -> Put(tree, out, Mp3Content(MinMp3Size - 1))
      [] OTHER -> tree

\* Mutant of ValidOutput: the encoder's output is not looked at.
ValidOutput_Unchecked(tree, out) == TRUE

\* not (not output_path_obj.exists() or output_path_obj.stat().st_size < 1024)
ValidOutput(tree, out) == out \in DOMAIN tree /\ tree[out][2] >= MinMp3Size

\* Mutant of ShouldRemove: the original is removed whatever remove_original is.
ShouldRemove_Always(remove_original, tree, out) == PathExists(tree, out)

\* if remove_original and output_path.exists()
ShouldRemove(remove_original, tree, out) == remove_original /\ PathExists(tree, out)

\* What one call convert_ogg_to_mp3(file_path, remove_original) does and returns,
\* for one way the encoder ends and one way the unlink ends
ConvertCall(v, tree, file_path, remove_original, enc, unlink) ==
    LET out == Mp3PathOf(v, file_path)
        t1 == AfterEncoder(tree, out, enc)
        Ends(t, r, ran, raised) == [tree |-> t, ret |-> r, ran |-> ran, raised |-> raised]
    IN  IF v # "convert" /\ ~IsOggName(Basename(file_path)) THEN Ends(tree, FALSE, FALSE, FALSE)
        ELSE IF v # "convert" /\ PathExists(tree, out) THEN Ends(tree, TRUE, FALSE, FALSE)
        ELSE IF enc = "not_found" THEN Ends(tree, FALSE, TRUE, TRUE)
        ELSE IF ~EncoderExitedZero(enc) THEN Ends(t1, FALSE, TRUE, FALSE)
        ELSE IF v # "convert" /\ ~ValidOutput(t1, out) THEN Ends(t1, FALSE, TRUE, FALSE)
        ELSE IF ShouldRemove(remove_original, t1, out)
             THEN IF unlink = "ok" THEN Ends(Remove(t1, file_path), TRUE, TRUE, FALSE)
                  ELSE Ends(t1, FALSE, TRUE, TRUE)
        ELSE Ends(t1, TRUE, TRUE, FALSE)

\* The record kept of one convert_ogg_to_mp3 call
Conversion(v, tree, file_path, enc, c) ==
    [file |-> file_path,
     existed |-> PathExists(tree, Mp3PathOf(v, file_path)),
     enc |-> IF c.ran THEN enc ELSE "none",
     valid |-> ValidOutput(c.tree, Mp3PathOf(v, file_path)),
     mp3_there |-> PathExists(c.tree, Mp3PathOf(v, file_path)),
     removed |-> file_path \in DOMAIN tree /\ file_path \notin DOMAIN c.tree,
     raised |-> c.raised]

CInit ==
    /\ cvariant \in Variants
    /\ remove_originals \in BOOLEAN
    /\ \E O \in SUBSET OggUniverse, M \in SUBSET Mp3Universe :
         /\ Cardinality(O) <= MaxOggFiles
         /\ cdir = [p \in O \cup M |-> IF p \in O THEN OggContent(p) ELSE OldMp3]
    /\ todo_convert = {}
    /\ total = 0
    /\ success_count = 0
    /\ cret = None
    /\ prev_cret = None
    /\ encoder_runs = 0
    /\ ccalls = 1
    /\ found = None
    /\ conversions = {}
    /\ cpc = "start"

\* convert_all_ogg_files (in convert.py: main) lists the unconverted files and
\* returns at once when there is none
ConvertAllStart ==
    /\ cpc = "start"
    /\ LET unconverted == find_unconverted_files(cvariant, cdir)
       IN  /\ todo_convert' = {unconverted[i] : i \in 1..Len(unconverted)}
           /\ total' = Len(unconverted)
           /\ IF unconverted = <<>>
              THEN /\ cret' = IF cvariant = "convert" THEN None ELSE TRUE
                   /\ cpc' = "returned"
              ELSE /\ cret' = cret
                   /\ cpc' = "loop"
    /\ success_count' = 0
    /\ encoder_runs' = 0
    /\ UNCHANGED <<cvariant, remove_originals, cdir, prev_cret, ccalls, found, conversions>>
    /\ UNCHANGED nonc

\* One turn of "for file_path in unconverted": convert_ogg_to_mp3 is called and
\* counted; after the last file the call returns success_count == len(unconverted)
\* (main of convert.py returns nothing).  An exception that convert_ogg_to_mp3
\* does not catch ends the call.
ConvertOne ==
    /\ cpc = "loop"
    /\ \E f \in todo_convert, enc \in EncoderOutcomes, unlink \in {"ok", "raised"} :
         LET c == ConvertCall(cvariant, cdir, f, remove_originals, enc, unlink)
             n == success_count + (IF c.ret THEN 1 ELSE 0)
         IN  /\ cdir' = c.tree
             /\ encoder_runs' = encoder_runs + (IF c.ran THEN 1 ELSE 0)
             /\ conversions' = conversions \cup
                    {Conversion(cvariant, cdir, f, enc, c)}
             /\ todo_convert' = todo_convert \ {f}
             /\ IF c.raised
                THEN /\ cpc' = "raised"
                     /\ UNCHANGED <<success_count, cret>>
                ELSE /\ success_count' = n
                     /\ IF todo_convert \ {f} # {}
                        THEN cpc' = "loop" /\ cret' = cret
                        ELSE /\ cpc' = "returned"
                             /\ cret' = IF cvariant = "convert" THEN None ELSE (n = total)
    /\ UNCHANGED <<cvariant, remove_originals, total, prev_cret, ccalls, found>>
    /\ UNCHANGED nonc

\* convert_ogg_to_mp3(file_path, remove_original) called by itself on a file of
\* the directory (in convert.py, which has no test of the name, on an .ogg file)
ConvertDirect ==
    /\ cpc = "start"
    /\ ccalls = 1
    /\ \E f \in DOMAIN cdir, enc \in EncoderOutcomes, unlink \in {"ok", "raised"} :
         LET c == ConvertCall(cvariant, cdir, f, remove_originals, enc, unlink)
         IN  /\ cvariant = "convert" => IsOggName(Basename(f))
             /\ cdir' = c.tree
             /\ encoder_runs' = encoder_runs + (IF c.ran THEN 1 ELSE 0)
             /\ conversions' = conversions \cup
                    {Conversion(cvariant, cdir, f, enc, c)}
             /\ IF c.raised
                THEN cpc' = "raised" /\ cret' = cret
                ELSE cpc' = "called" /\ cret' = c.ret
    /\ UNCHANGED <<cvariant, remove_originals, todo_convert, total, success_count,
                   prev_cret, ccalls, found>>
    /\ UNCHANGED nonc

\* find_unconverted_files(directory) called right after the return
FindAfter ==
    /\ cpc = "returned"
    /\ found' = find_unconverted_files(cvariant, cdir)
    /\ cpc' = "checked"
    /\ UNCHANGED <<cvariant, remove_originals, cdir, todo_convert, total, success_count,
                   cret, prev_cret, encoder_runs, ccalls, conversions>>
    /\ UNCHANGED nonc

\* convert_all_ogg_files is called again on the same directory
ConvertAllAgain ==
    /\ cpc = "checked"
    /\ ccalls < MaxConvertCalls
    /\ ccalls' = ccalls + 1
    /\ prev_cret' = cret
    /\ cret' = None
    /\ found' = None
    /\ todo_convert' = {}
    /\ total' = 0
    /\ success_count' = 0
    /\ encoder_runs' = 0
    /\ conversions' = {}
    /\ cpc' = "start"
    /\ UNCHANGED <<cvariant, remove_originals, cdir>>
    /\ UNCHANGED nonc

\* The variables of the conversion while another part runs
CIdle ==
    /\ cvariant = "none"
    /\ remove_originals = FALSE
    /\ cdir = NoFiles
    /\ todo_convert = {}
    /\ total = 0
    /\ success_count = 0
    /\ cret = None
    /\ prev_cret = None
    /\ encoder_runs = 0
    /\ ccalls = 0
    /\ found = None
    /\ conversions = {}
    /\ cpc = "idle"

-----------------------------------------------------------------------------
(* The scripts as run from the command line: the "if __name__ == '__main__'"  *)
(* blocks of scrape.py, cratedigger/spotify.py, extractor/spotify.py and      *)
(* extractor/convert.py, and the main() of the two spotify.py                 *)

Scripts == {"cratedigger/scrape.py", "cratedigger/spotify.py",
            "extractor/spotify.py", "extractor/convert.py"}
\* The scripts whose __main__ block wraps main() in try/except KeyboardInterrupt
CatchesInterrupt(sc) == sc \in {"cratedigger/spotify.py", "extractor/spotify.py"}
\* Nothing was printed at exit
NoMessage == ""
CanceledMsg == "Operation canceled by user"
\* is_valid_spotify_url(args.url), for a URL that was given
ValidUrl(kind) == kind = "valid"
TracebackMsg == "Traceback (most recent call last): ..."
\* Exit status of a Python process ended by an unhandled KeyboardInterrupt: the
\* interpreter prints the traceback and ends through the SIGINT default handler
SigintStatus == 130

SInit ==
    /\ script \in Scripts
    /\ spos = "start"
    /\ download = FALSE
    /\ mp3_links = 0
    /\ link_i = 0
    /\ successful = 0
    /\ failed = 0
    /\ trace = <<>>
    /\ keep_ogg = FALSE
    /\ use_ogg = FALSE
    /\ skip_download = FALSE
    /\ url_kind = "missing"
    /\ tool_started = FALSE
    /\ success = "none"
    /\ converted = FALSE
    /\ interrupted = FALSE
    /\ exit_code = None
    /\ message = NoMessage

\* scrape.py: parse_args and find_mp3_urls_from_archive; without links, or
\* without --download, only a note is printed
FindLinks ==
    /\ script = "cratedigger/scrape.py"
    /\ spos = "start"
    /\ download' \in BOOLEAN
    /\ mp3_links' \in 0..MaxLinks
    /\ spos' = IF mp3_links' > 0 /\ download' THEN "download" ELSE "end"
    /\ UNCHANGED <<script, link_i, successful, failed, trace, keep_ogg,
                   use_ogg, skip_download,
                   url_kind, tool_started, success, converted, interrupted, exit_code, message>>
    /\ UNCHANGED nons

\* Mutant of MoreLinks: a wait follows every download, the last included
MoreLinks_Always(i, n) == i <= n

\* scrape.py line 304: another link follows the one just handled
MoreLinks(i, n) == i < n

\* scrape.py: "for i, url in enumerate(mp3_links, 1)" takes the next link and
\* calls download_mp3 with it
StartDownload ==
    /\ script = "cratedigger/scrape.py"
    /\ spos = "download"
    /\ link_i' = link_i + 1
    /\ trace' = Append(trace, <<"call", link_i + 1>>)
    /\ spos' = "downloading"
    /\ UNCHANGED <<script, download, mp3_links, successful, failed, keep_ogg, use_ogg,
                   skip_download, url_kind, tool_started, success, converted, interrupted, exit_code, message>>
    /\ UNCHANGED nons

\* scrape.py: download_mp3 returns and one of the counters is incremented; or it
\* raises (the mkdir before its try block) and the traceback ends the script
DownloadOne ==
    /\ script = "cratedigger/scrape.py"
    /\ spos = "downloading"
    /\ \E outcome \in {"success", "failed", "raised"} :
         /\ successful' = IF outcome = "success" THEN successful + 1 ELSE successful
         /\ failed' = IF outcome = "failed" THEN failed + 1 ELSE failed
         /\ IF outcome = "raised"
            THEN /\ spos' = "exited"
                 /\ exit_code' = 1
                 /\ message' = TracebackMsg
                 /\ trace' = trace
            ELSE /\ spos' = IF MoreLinks(link_i, mp3_links) THEN "wait" ELSE "end"
                 /\ trace' = Append(trace, <<"return", link_i>>)
                 /\ UNCHANGED <<exit_code, message>>
    /\ UNCHANGED <<script, download, mp3_links, link_i, keep_ogg, use_ogg, skip_download,
                   url_kind, tool_started, success, converted, interrupted>>
    /\ UNCHANGED nons

\* scrape.py: time.sleep(wait_time) between two downloads
WaitBetween ==
    /\ script = "cratedigger/scrape.py"
    /\ spos = "wait"
    /\ trace' = Append(trace, <<"wait", link_i>>)
    /\ spos' = "download"
    /\ UNCHANGED <<script, download, mp3_links, link_i, successful, failed, keep_ogg, use_ogg,
                   skip_download, url_kind, tool_started, success, converted, interrupted, exit_code, message>>
    /\ UNCHANGED nons

\* convert.py: the __main__ block calls copy_audio_files on fixed paths
CopyFixedPaths ==
    /\ script = "extractor/convert.py"
    /\ spos = "start"
    /\ spos' = "end"
    /\ UNCHANGED <<script, download, mp3_links, link_i, successful, failed, trace, keep_ogg,
                   use_ogg,
                   skip_download, url_kind, tool_started, success, converted, interrupted, exit_code, message>>
    /\ UNCHANGED nons

\* scrape.py and convert.py: the end of the file is reached
EndOfScript ==
    /\ ~CatchesInterrupt(script)
    /\ spos = "end"
    /\ spos' = "exited"
    /\ exit_code' = 0
    /\ UNCHANGED <<script, download, mp3_links, link_i, successful, failed, trace, keep_ogg,
                   use_ogg,
                   skip_download, url_kind, tool_started, success, converted, interrupted, message>>
    /\ UNCHANGED nons

\* spotify.py main(): parse_args and the two checks of the arguments
CheckArgs ==
    /\ CatchesInterrupt(script)
    /\ spos = "start"
    /\ keep_ogg' \in BOOLEAN
    /\ use_ogg' \in BOOLEAN
    /\ skip_download' \in BOOLEAN
    /\ url_kind' \in {"missing", "invalid", "valid"}
    /\ IF keep_ogg' /\ use_ogg'
       THEN spos' = "exited" /\ exit_code' = 1
       ELSE IF ~skip_download' /\ url_kind' = "missing"
       THEN spos' = "exited" /\ exit_code' = 1
       ELSE spos' = "mkdir" /\ exit_code' = exit_code
    /\ UNCHANGED <<script, download, mp3_links, link_i, successful, failed, trace,
                   tool_started, success, converted, interrupted, message>>
    /\ UNCHANGED nons

\* spotify.py main(): the target directory is created; an OSError is not caught
MakeTarget ==
    /\ CatchesInterrupt(script)
    /\ spos = "mkdir"
    /\ \/ /\ spos' = IF ~skip_download THEN "download" ELSE "convert"
          /\ UNCHANGED <<exit_code, message>>
       \/ /\ spos' = "exited"
          /\ exit_code' = 1
          /\ message' = TracebackMsg
    /\ UNCHANGED <<script, download, mp3_links, link_i, successful, failed, trace, keep_ogg,
                   use_ogg, skip_download, url_kind, tool_started, success, converted,
                   interrupted>>
    /\ UNCHANGED nons

\* spotify.py main(): the URL is validated and download_spotify_content is called;
\* it returns True or False, or raises (the mkdir of a destination directory is
\* outside its try blocks)
DownloadContent ==
    /\ CatchesInterrupt(script)
    /\ spos = "download"
    /\ IF ~ValidUrl(url_kind)
       THEN /\ spos' = "exited"
            /\ exit_code' = 1
            /\ UNCHANGED <<tool_started, success, message>>
       ELSE /\ tool_started' = TRUE
            /\ \E outcome \in {"true", "false", "raised"} :
                 CASE outcome = "true" ->
                        /\ success' = "True"
                        /\ spos' = "convert"
                        /\ UNCHANGED <<exit_code, message>>
                   [] outcome = "false" ->
                        /\ success' = "False"
                        /\ spos' = "exited"
                        /\ exit_code' = 1
                        /\ message' = message
                   [] OTHER ->
                        /\ success' = success
                        /\ spos' = "exited"
                        /\ exit_code' = 1
                        /\ message' = TracebackMsg
    /\ UNCHANGED <<script, download, mp3_links, link_i, successful, failed, trace, keep_ogg,
                   use_ogg, skip_download, url_kind, converted, interrupted>>
    /\ UNCHANGED nons

\* Mutant of ShouldConvert: --keep-ogg is not looked at.
ShouldConvert_IgnoresKeepOgg(useOgg, skip, keepOgg) == useOgg \/ skip

\* if args.use_ogg or (args.skip_download and not args.keep_ogg)
ShouldConvert(useOgg, skip, keepOgg) == useOgg \/ (skip /\ ~keepOgg)

\* spotify.py main(): convert_all_ogg_files when asked for, then return 0; what
\* convert_all_ogg_files returns is not looked at, an exception it lets through
\* (ffmpeg missing, unlink failing) ends the script
ConvertAndReturn ==
    /\ CatchesInterrupt(script)
    /\ spos = "convert"
    /\ converted' = ShouldConvert(use_ogg, skip_download, keep_ogg)
    /\ spos' = "exited"
    /\ \/ /\ exit_code' = 0
          /\ message' = message
       \/ /\ converted'
          /\ exit_code' = 1
          /\ message' = TracebackMsg
    /\ UNCHANGED <<script, download, mp3_links, link_i, successful, failed, trace, keep_ogg,
                   use_ogg, skip_download, url_kind, tool_started, success, interrupted>>
    /\ UNCHANGED nons

\* The user interrupts the running script: KeyboardInterrupt is raised in the
\* main thread wherever it is.  No function of the scripts catches it (their
\* handlers are "except Exception" or narrower), so it reaches the __main__ block.
Interrupt ==
    /\ spos # "exited"
    /\ interrupted' = TRUE
    /\ spos' = "exited"
    /\ IF CatchesInterrupt(script)
       THEN exit_code' = 1 /\ message' = CanceledMsg
       ELSE exit_code' = SigintStatus /\ message' = TracebackMsg
    /\ UNCHANGED <<script, download, mp3_links, link_i, successful, failed, trace, keep_ogg,
                   use_ogg,
                   skip_download, url_kind, tool_started, success, converted>>
    /\ UNCHANGED nons

\* The variables of the scripts while another part runs
SIdle ==
    /\ script = "none"
    /\ spos = "idle"
    /\ download = FALSE
    /\ mp3_links = 0
    /\ link_i = 0
    /\ successful = 0
    /\ failed = 0
    /\ trace = <<>>
    /\ keep_ogg = FALSE
    /\ use_ogg = FALSE
    /\ skip_download = FALSE
    /\ url_kind = "missing"
    /\ tool_started = FALSE
    /\ success = "none"
    /\ converted = FALSE
    /\ interrupted = FALSE
    /\ exit_code = None
    /\ message = NoMessage

\* The resolver's variables while only the downloader runs
RIdle ==
    /\ raw_url = None
    /\ archive_url = None
    /\ type_prefix = None
    /\ timestamp = None
    /\ resolved = None
    /\ resolved2 = None
    /\ rpc = "idle"

\* The downloader's variables while only the resolver runs
DlIdle ==
    /\ max_retries = 0
    /\ delay_between_retries = 1
    /\ force_download = FALSE
    /\ dirExists = FALSE
    /\ file = NoFile
    /\ pc = "idle"
    /\ attempt = 0
    /\ downloaded = 0
    /\ exc = None
    /\ sleep_time = 0
    /\ result = None
    /\ file0 = NoFile
    /\ gets = 0
    /\ sleeps = <<>>
    /\ events = <<>>
    /\ outcomes = <<>>
    /\ wrote = FALSE
    /\ emptyBody = FALSE
    /\ calls = 0
    /\ prevResult = None
    /\ complete = FALSE
    /\ forced = FALSE

-----------------------------------------------------------------------------
(* Specifications *)

DownloadNext ==
    \/ Mkdir
    \/ CheckExisting
    \/ LoopHead
    \/ Get
    \/ Open
    \/ Stream
    \/ Stat
    \/ Unlink
    \/ Except
    \/ Wake
    \/ CallAgain

DownloadInit == DlInit /\ RIdle /\ LIdle /\ FIdle /\ SIdle /\ CIdle

SpecDownload == DownloadInit /\ [][DownloadNext]_vars

ResolveNext ==
    \/ FindTimestamp
    \/ FindLink
    \/ DirectCall
    \/ Reresolve

ResolveInit == RInit /\ DlIdle /\ LIdle /\ FIdle /\ SIdle /\ CIdle

SpecResolve == ResolveInit /\ [][ResolveNext]_vars

ListNext ==
    \/ ListFiles

ListInit == LInit /\ DlIdle /\ RIdle /\ FIdle /\ SIdle /\ CIdle

SpecList == ListInit /\ [][ListNext]_vars

RelocateNext ==
    \/ SnapshotBefore
    \/ RunTool
    \/ Diff
    \/ RelocateAudio
    \/ RelocateImage
    \/ Summarize
    \/ MoveAudio
    \/ MoveImage
    \/ CheckTarget
    \/ CopyStart
    \/ CopyStep
    \/ CopyReturn

RelocateInit == FInit /\ DlIdle /\ RIdle /\ LIdle /\ SIdle /\ CIdle

SpecRelocate == RelocateInit /\ [][RelocateNext]_vars

ScriptNext ==
    \/ FindLinks
    \/ StartDownload
    \/ DownloadOne
    \/ WaitBetween
    \/ CopyFixedPaths
    \/ EndOfScript
    \/ CheckArgs
    \/ MakeTarget
    \/ DownloadContent
    \/ ConvertAndReturn
    \/ Interrupt

ScriptInit == SInit /\ DlIdle /\ RIdle /\ LIdle /\ FIdle /\ CIdle

SpecScript == ScriptInit /\ [][ScriptNext]_vars

ConvertNext ==
    \/ ConvertAllStart
    \/ ConvertOne
    \/ ConvertDirect
    \/ FindAfter
    \/ ConvertAllAgain

ConvertInit == CInit /\ DlIdle /\ RIdle /\ LIdle /\ FIdle /\ SIdle

SpecConvert == ConvertInit /\ [][ConvertNext]_vars
-----------------------------------------------------------------------------
(* Properties of download_mp3, checked under SpecDownload *)

Returned == pc = "done"
Failed == Returned /\ result.success = FALSE
\* The call returned through the skip rule / through a completed download.
Skipped == Returned /\ result.success = TRUE /\ gets = 0
Fresh == Returned /\ result.success = TRUE /\ gets > 0
IsNetworkError(o) == o[1] = "RequestException"

\* C1: with force_download=False and a non-empty file already at the destination,
\* the call never enters the retry loop: it issues no GET, never sleeps, never
\* opens or changes the file, and what it returns is (True, filepath, None).
C1_SkipExisting ==
    (~force_download /\ file0 # NoFile /\ Len(file0) > 0)
        => /\ pc \in {"mkdir", "check", "done"}
           /\ gets = 0
           /\ events = <<>>
           /\ ~wrote
           /\ file = file0
           /\ Returned => result = [success |-> TRUE, filepath |-> filepath_str,
                                    error |-> None]

C1_Witness ==
    /\ Returned
    /\ ~force_download
    /\ file0 = OldContent
    /\ result.success = TRUE
    /\ gets = 0

\* C2 (as claimed): once an attempt has streamed a 2xx body of 0 bytes, the call
\* only removes the file and returns Failed("Downloaded file is empty"), leaving
\* no file and making no further attempt.
C2_EmptyBodyAlwaysTerminal ==
    emptyBody
        => /\ pc \in {"unlink", "done"}
           /\ Returned => /\ result = FailedResult(EmptyMsg)
                          /\ file = NoFile

\* C2 (amended): an attempt that streamed a 2xx body of 0 bytes and whose removal
\* of the empty file succeeded is the last attempt of the call: the call has
\* returned Failed("Downloaded file is empty"), no file is left at the destination
\* and the number of GETs is the number of attempts made up to that one, whatever
\* max_retries is.  (A removal that raises is handled like any other non-network
\* exception.)
C2_EmptyBodyTerminal ==
    \A k \in DOMAIN outcomes :
        outcomes[k] = <<"empty">>
            => /\ k = Len(outcomes)
               /\ Returned
               /\ result = [success |-> FALSE, filepath |-> None,
                            error |-> <<"Downloaded file is empty">>]
               /\ file = NoFile
               /\ gets = k

C2_Witness ==
    /\ Returned
    /\ emptyBody
    /\ max_retries = 3
    /\ gets = 1
    /\ file0 = OldContent
    /\ file = NoFile
    /\ result.error = EmptyMsg

\* C3: with max_retries = 3, two attempts that fail with a network error followed
\* by an attempt that streams a non-empty body end in Success(path) after exactly
\* two sleeps, of base_delay and base_delay*2 (jitter aside), each between two
\* consecutive GETs.
C3_TwoFailuresThenSuccess ==
    ( /\ Returned
      /\ max_retries = 3
      /\ Len(outcomes) = 3
      /\ IsNetworkError(outcomes[1])
      /\ IsNetworkError(outcomes[2])
      /\ outcomes[3] = <<"ok">> )
        => /\ result = [success |-> TRUE, filepath |-> filepath_str, error |-> None]
           /\ Size(file) > 0
           /\ gets = 3
           /\ sleeps = <<delay_between_retries, delay_between_retries * 2>>
           /\ events = <<"get", "sleep", "get", "sleep", "get">>

C3_Witness ==
    /\ Returned
    /\ max_retries = 3
    /\ Len(outcomes) = 3
    /\ IsNetworkError(outcomes[1])
    /\ IsNetworkError(outcomes[2])
    /\ outcomes[3] = <<"ok">>
    /\ delay_between_retries = 2
    /\ sleeps = <<2, 4>>

\* base_delay * 2^attempt for attempt = 0, 1, 2, ..., written out
ExpectedSleeps(d) == <<d, 2 * d, 4 * d, 8 * d, 16 * d>>
ExpectedEvents(n) == [k \in 1..(2 * n - 1) |-> IF k % 2 = 1 THEN "get" ELSE "sleep"]

\* C4: for max_retries = n >= 1, a call in which every attempt failed with a
\* network error has issued exactly n GETs, slept exactly n-1 times, after failed
\* attempt a for base_delay * 2^a (jitter aside) and not after the last one, and
\* has returned Failed with the error message of the last attempt.
C4_AllAttemptsFail ==
    ( /\ Returned
      /\ max_retries >= 1
      /\ gets >= 1
      /\ \A k \in DOMAIN outcomes : IsNetworkError(outcomes[k]) )
        => /\ gets = max_retries
           /\ Len(outcomes) = max_retries
           /\ sleeps = SubSeq(ExpectedSleeps(delay_between_retries), 1, max_retries - 1)
           /\ events = ExpectedEvents(max_retries)
           /\ result = [success |-> FALSE, filepath |-> None,
                        error |-> <<"Network error: ", outcomes[max_retries][2]>>]

C4_Witness ==
    /\ Returned
    /\ max_retries = 3
    /\ gets = 3
    /\ Len(outcomes) = 3
    /\ outcomes[1] = <<"RequestException", "ConnectionError">>
    /\ outcomes[2] = <<"RequestException", "ConnectionError">>
    /\ outcomes[3] = <<"RequestException", "HTTPError">>
    /\ result.error = NetworkErrorMsg("HTTPError")

\* C5 (as claimed): when the call returns Failed, no file holding body chunks that
\* this call wrote is left at the destination path.
C5_NoPartialFileOnFailure ==
    Failed => ~(wrote /\ Exists(file) /\ Size(file) > 0)

\* C6 (as claimed): no exception leaves download_mp3.
C6_NeverRaises ==
    pc # "raised"

\* C7 (as claimed): the returned value tells a skipped existing file from a fresh
\* download and both from a failure; a failure carries no path, a non-failure no
\* reason.
C7_ThreeOutcomes ==
    Returned
        => /\ Skipped => result # SuccessResult
           /\ Failed => (result.filepath = None /\ result.error # None)
           /\ ~Failed => (result.filepath # None /\ result.error = None)

\* C7 (amended): every call that returns yields one of two shapes of tuple:
\* (True, filepath, None), the same tuple for a fresh download and for a skipped
\* existing file, or (False, None, reason); a failure carries no path and a
\* non-failure no reason; nothing is returned before the call is done.
C7_TwoShapes ==
    /\ ~Returned => result = None
    /\ Returned
        => /\ result.success \in BOOLEAN
           /\ result.success = TRUE
                => result = [success |-> TRUE, filepath |-> filepath_str, error |-> None]
           /\ result.success = FALSE
                => /\ result.filepath = None
                   /\ result.error # None
                   /\ result.error \in
                        {<<"Downloaded file is empty">>, <<"Maximum retry attempts reached">>}
                        \cup {<<"Network error: ", e>> : e \in NetErrors}
                        \cup {<<"Error downloading url: ", e>> : e \in OsErrors \cup {"ValueError"}}

C7_Witness ==
    /\ Skipped
    /\ file0 = OldContent
    /\ result = SuccessResult
\* C13: after a call that returned Success, a later call for the same URL and
\* destination with force_download = False issues no HTTP request, leaves the
\* file as it was and returns Success with the same path.
C13_RepeatedCallIsNoOp ==
    (calls > 1 /\ prevResult = SuccessResult /\ ~force_download)
        => /\ pc \in {"mkdir", "check", "done"}
           /\ gets = 0
           /\ ~wrote
           /\ file = file0
           /\ Returned => (result = SuccessResult /\ result.filepath = prevResult.filepath)

C13_Witness ==
    /\ calls = 2
    /\ prevResult = SuccessResult
    /\ ~force_download
    /\ Returned
    /\ result = SuccessResult
    /\ gets = 0
    /\ file0 = <<"a">>
    /\ file = <<"a">>

\* C14: a call returns Failed("Maximum retry attempts reached") exactly when the
\* loop runs zero attempts (max_retries <= 0 and the skip rule does not apply),
\* and then no HTTP request was issued; with max_retries >= 1 every call returns
\* from inside the loop (after at least one attempt) or by the skip rule, never
\* with this reason.
C14_MaxRetriesOnlyForEmptyLoop ==
    Returned =>
        /\ (result = FailedResult(MaxRetriesMsg))
              <=> (max_retries <= 0 /\ ~(~force_download /\ file0 # NoFile /\ Len(file0) > 0))
        /\ (result = FailedResult(MaxRetriesMsg)) => (gets = 0 /\ outcomes = <<>>)
        /\ max_retries >= 1 =>
              /\ result.error # MaxRetriesMsg
              /\ (Skipped \/ (gets >= 1 /\ outcomes # <<>>))

C14_Witness ==
    /\ Returned
    /\ max_retries = 0
    /\ force_download
    /\ file0 = OldContent
    /\ gets = 0
    /\ result = FailedResult(MaxRetriesMsg)


\* C27: an attempt that ends with an exception, network error or not, is handled by
\* its number alone: before the last attempt the call sleeps base_delay * 2^attempt
\* plus jitter and goes on to the next attempt; on the last attempt the call returns
\* Failed with the message of that exception.  In particular a failure to open,
\* write or remove the file never ends the call before the last attempt.
C27_AnyExceptionRetriedAlike ==
    \A k \in DOMAIN outcomes :
        outcomes[k][1] \in {"Exception", "RequestException"} =>
            IF k < max_retries
            THEN /\ Len(sleeps) >= k
                 /\ sleeps[k] = ExpectedSleeps(delay_between_retries)[k]
                 /\ (Len(outcomes) = k) =>
                        /\ pc \in {"sleep", "loop", "get", "open", "stream", "stat",
                                   "unlink", "except"}
                        /\ pc = "sleep" => (sleep_time - sleeps[k]) \in Jitters
            ELSE /\ k = max_retries
                 /\ Len(outcomes) = k
                 /\ Len(sleeps) = k - 1
                 /\ Returned
                 /\ result = [success |-> FALSE, filepath |-> None,
                              error |-> IF outcomes[k][1] = "Exception"
                                        THEN <<"Error downloading url: ", outcomes[k][2]>>
                                        ELSE <<"Network error: ", outcomes[k][2]>>]
C27_Witness ==
    /\ Returned
    /\ max_retries = 2
    /\ emptyBody
    /\ outcomes = << <<"Exception", "OSError">>, <<"Exception", "OSError">> >>
    /\ sleeps = <<delay_between_retries>>
    /\ result.error = <<"Error downloading url: ", "OSError">>

\* C22 (as claimed): in a sequence of calls for one destination, all with
\* force_download = False, a call that returns Success (by the skip rule or after a
\* download) leaves at the path the whole body of a response streamed to its end.
C22_SuccessMeansWholeBody ==
    (Returned /\ ~forced /\ result.success = TRUE)
        => (Size(file) > 0 /\ complete)
-----------------------------------------------------------------------------
(* Properties of the resolver, checked under SpecResolve *)

\* construct_wayback_url has been applied to raw_url
Resolved == rpc \in {"links", "called"} /\ raw_url # None

\* "https://site.com", the site archived by ArchExample
SiteCom == Https \o <<"s", "i", "t", "e", ".", "c", "o", "m">>

\* C8 (as claimed): a site-relative raw URL (starting with "/" but not "/web/")
\* resolved against https://example.org/web/20210101000000/https://site.com/page.html
\* becomes https://web.archive.org/web/20210101000000{prefix}/https://site.com{raw}:
\* the host inserted is that of the archived site.
C8_SiteRelativeUsesArchivedSite ==
    ( /\ Resolved
      /\ archive_url = ArchExample
      /\ timestamp = Ts2021
      /\ raw_url[1] = "/"
      /\ ~StartsWith(raw_url, WebSlash) )
        => resolved = WaybackPrefix \o Ts2021 \o type_prefix \o <<"/">> \o SiteCom \o raw_url

\* C9: a raw URL that begins with https://web.archive.org/web/ is returned
\* unchanged, for every archive page URL, timestamp and type_prefix.
C9_CanonicalUnchanged ==
    (Resolved /\ Len(raw_url) >= Len(WaybackPrefix)
              /\ SubSeq(raw_url, 1, Len(WaybackPrefix)) = WaybackPrefix)
        => resolved = raw_url

C9_Witness ==
    /\ rpc = "called"
    /\ raw_url = RawCanonical
    /\ archive_url = ArchExample
    /\ timestamp = Ts2021
    /\ resolved = RawCanonical

\* s contains a segment /web/<digits>/ with at least one digit
HasWebDigitsSegment(s) ==
    \E i, j \in 1..Len(s) :
        /\ i + Len(WebSlash) < j
        /\ SubSeq(s, i, i + Len(WebSlash) - 1) = WebSlash
        /\ \A k \in (i + Len(WebSlash))..(j - 1) : s[k] \in Digits
        /\ s[j] = "/"

\* C10: when the archive page URL contains no /web/<digits>/ segment, the
\* timestamp find_mp3_urls_from_archive extracts is None and every link of the
\* page resolves to its raw URL, unmodified.
C10_NoTimestampPassthrough ==
    (rpc = "links" /\ ~HasWebDigitsSegment(archive_url))
        => /\ timestamp = None
           /\ raw_url # None => resolved = raw_url

C10_Witness ==
    /\ rpc = "links"
    /\ archive_url = ArchNoSlash
    /\ timestamp = None
    /\ raw_url = RawPartial
    /\ type_prefix = OePrefix
    /\ resolved = RawPartial

\* The scheme+host of s: the leftmost "http://" or "https://" followed by its
\* longest non-empty run of characters other than "/"; None when s has none.
SchemeHostSpans(s) ==
    UNION { { <<i, j>> : j \in { m \in (i + Len(p))..Len(s) :
                                   /\ \A k \in (i + Len(p))..m : s[k] # "/"
                                   /\ (m = Len(s) \/ s[m + 1] = "/") } } :
            <<i, p>> \in { x \in (1..Len(s)) \X {Http, Https} :
                             /\ x[1] + Len(x[2]) - 1 <= Len(s)
                             /\ SubSeq(s, x[1], x[1] + Len(x[2]) - 1) = x[2] } }
SchemeHostOf(s) ==
    IF SchemeHostSpans(s) = {} THEN None
    ELSE LET span == CHOOSE x \in SchemeHostSpans(s) :
                         \A y \in SchemeHostSpans(s) : x[1] <= y[1]
         IN  SubSeq(s, span[1], span[2])

\* The five rules as a priority list: when a rule applies and what it yields.
RuleList(url, arch, ts, prefix) ==
    << [applies |-> ts = None,
        yields  |-> url],
       [applies |-> StartsWith(url, WaybackPrefix),
        yields  |-> url],
       [applies |-> StartsWith(url, WebSlash),
        yields  |-> WaybackHost \o url],
       [applies |-> StartsWith(url, <<"/">>),
        yields  |-> IF SchemeHostOf(arch) # None
                    THEN WaybackPrefix \o ts \o prefix \o <<"/">> \o SchemeHostOf(arch) \o url
                    ELSE WaybackPrefix \o ts \o prefix \o <<"/">> \o SubSeq(url, 2, Len(url))],
       [applies |-> TRUE,
        yields  |-> WaybackPrefix \o ts \o prefix \o <<"/">> \o url] >>
FirstRule(url, arch, ts, prefix) ==
    SetMin({k \in 1..5 : RuleList(url, arch, ts, prefix)[k].applies})

\* C11: construct_wayback_url returns what the first applicable rule of the
\* five-rule list yields; a raw URL beginning with /web/ (with a timestamp, and
\* not already canonical) falls under rule 3, never under rule 4.
C11_FirstMatchingRule ==
    Resolved =>
        LET k == FirstRule(raw_url, archive_url, timestamp, type_prefix)
        IN  /\ resolved = RuleList(raw_url, archive_url, timestamp, type_prefix)[k].yields
            /\ (timestamp # None /\ StartsWith(raw_url, WebSlash))
                   => (k = 3 /\ resolved = WaybackHost \o raw_url)

C11_Witness ==
    /\ Resolved
    /\ raw_url = RawPartial
    /\ timestamp = Ts2019
    /\ FirstRule(raw_url, archive_url, timestamp, type_prefix) = 3
    /\ resolved = WaybackHost \o RawPartial

\* C12: resolving is idempotent: for fixed archive page URL, timestamp and
\* type prefix, resolving the resolved URL again returns it unchanged.
C12_Idempotent ==
    (Resolved /\ resolved2 # None) => resolved2 = resolved

C12_Witness ==
    /\ Resolved
    /\ raw_url = RawSiteRelative
    /\ timestamp = Ts2021
    /\ resolved # raw_url
    /\ resolved2 = resolved
-----------------------------------------------------------------------------
(* Properties of list_existing_files, checked under SpecList *)

\* The last name of a path, lowercased, ends with one of the extensions given
\* (the five default ones when none is given)
NameMatches(p, exts) ==
    LET n == p[Len(p)]
        low == [k \in 1..Len(n) |-> IF n[k] = "M" THEN "m" ELSE IF n[k] = "P" THEN "p" ELSE n[k]]
        given == IF exts = None THEN {ExtOgg, ExtMp3, ExtJpg, ExtJpeg, ExtPng}
                 ELSE {exts[i] : i \in 1..Len(exts)}
    IN  \E e \in given : \E k \in 1..Len(low) : SubSeq(low, k, Len(low)) = e

-----------------------------------------------------------------------------
(* Properties of the relocation, checked under SpecRelocate *)

Spotify == variant \in {"cratedigger", "extractor"}
\* The call got past the comparison of the two snapshots
Diffed == Spotify /\ fpc \in {"audio", "images", "return", "done"} /\ return_code = 0 /\ libExists
\* The files under the source directory when the relocation started (a move
\* takes its source away later)
SourceFiles == (DOMAIN lib) \cup {m.src : m \in moves}

\* C15: the newly appeared files are the plain set difference after - before of
\* the two snapshots of the tool's output directory (the snapshot after being the
\* audio files, the one before every listed file): one file added gives that
\* file, nothing added gives the empty set, and no file that was there before
\* the tool ran is in the result.
C15_NewlyAppearedIsSetDifference ==
    Diffed =>
        LET before == {p \in DOMAIN lib0 : NameMatches(p, None)}
            after == {p \in SourceFiles : NameMatches(p, <<ExtOgg, ExtMp3>>)}
        IN  /\ new_audio_files = after \ before
            /\ new_audio_files \cap DOMAIN lib0 = {}
            /\ \A x \in SourceFiles : after = before \cup {x} => new_audio_files = {x} \ before
            /\ after \subseteq before => new_audio_files = {}

C15_Witness ==
    /\ Diffed
    /\ DOMAIN lib0 = { <<AMp3>> }
    /\ SourceFiles = { <<AMp3>>, <<DirA, XMP3>> }
    /\ new_audio_files = { <<DirA, XMP3>> }

\* The end-to-end scenario: the output directory holds a.mp3, the tool adds b.ogg
\* and cover.jpg, the target already holds b.ogg (for copy_audio_files, which
\* runs no tool, the source directory holds the three files)
Scenario ==
    /\ DOMAIN tgt0 = { <<BOgg>> }
    /\ SourceFiles = { <<AMp3>>, <<BOgg>>, <<CoverJpg>> }
    /\ \/ Spotify /\ DOMAIN lib0 = { <<AMp3>> } /\ fpc = "done" /\ return_code = 0
       \/ variant = "convert" /\ fpc = "done"

WithNumber(n, k) ==
    LET i == CHOOSE d \in 2..(Len(n) - 1) : n[d] = "." /\ \A e \in (d + 1)..Len(n) : n[e] # "."
    IN  SubSeq(n, 1, i - 1) \o <<"_", <<"1", "2", "3", "4", "5", "6", "7", "8", "9">>[k]>>
            \o SubSeq(n, i, Len(n))
\* The files of the source directory copy_audio_files has to copy
ToCopy == {f \in DOMAIN lib0 : NameMatches(f, <<Lower(extension)>>)}
IsCopyOf(p, f) == p \in DOMAIN tgt /\ tgt[p] = LibContent(f)

\* C18 (as claimed): when copy_audio_files returns, every file under source_dir
\* that matches the extension has been copied into target_dir, and target_dir
\* holds exactly copied_count more files than before.
C18_EveryMatchingFileCopied ==
    (variant = "convert" /\ fpc = "done") =>
        /\ \A f \in ToCopy : \E p \in (DOMAIN tgt) \ (DOMAIN tgt0) : IsCopyOf(p, f)
        /\ Cardinality(DOMAIN tgt) = Cardinality(DOMAIN tgt0) + ret

\* C18 (amended): every copy goes to a name that did not exist in target_dir at
\* that moment: the file's own name if free, else name_k.ext for the smallest
\* k >= 1 that is free; a copy that succeeds leaves the file's content there and
\* no file of the target is replaced.  When the call returns, a copy was
\* attempted for every matching file, copied_count is the number of copies that
\* succeeded, and the target holds exactly that many more complete files.
C18_NumericSuffixKeepsData ==
    variant = "convert" =>
        /\ \A m \in moves :
              LET n == Basename(m.src)
              IN  /\ m.free /\ m.dest \notin m.taken
                  /\ IF <<n>> \notin m.taken
                     THEN m.dest = <<n>>
                     ELSE \E k \in 1..9 :
                            /\ m.dest = <<WithNumber(n, k)>>
                            /\ \A j \in 1..(k - 1) : <<WithNumber(n, j)>> \in m.taken
                  /\ m.outcome = "ok" => IsCopyOf(m.dest, m.src)
        /\ \A p \in DOMAIN tgt0 : p \in DOMAIN tgt /\ tgt[p] = tgt0[p]
        /\ fpc = "done" =>
              /\ {m.src : m \in moves} = ToCopy
              /\ ret = Cardinality({m \in moves : m.outcome = "ok"})
              /\ ret = Cardinality({p \in (DOMAIN tgt) \ (DOMAIN tgt0) :
                                       \E f \in ToCopy : IsCopyOf(p, f)})

C18_Witness ==
    /\ variant = "convert"
    /\ fpc = "done"
    /\ extension = ExtOgg
    /\ DOMAIN tgt0 = { <<BOgg>> }
    /\ ToCopy = { <<BOgg>>, <<DirA, BOgg>> }
    /\ ret = 2
    /\ DOMAIN tgt = { <<BOgg>>, <<B1Ogg>>, <<B2Ogg>> }

\* C19 (as claimed): in every variant a file that was in the target before the
\* relocation is still there with its content, whatever was relocated.
C19_NeverOverwrites ==
    \A p \in DOMAIN tgt0 : p \in DOMAIN tgt /\ tgt[p] = tgt0[p]

\* C23 (as claimed): download_spotify_content copies or moves only files that
\* appeared while the tool ran: no file, audio or image, that was under the output
\* directory before the tool ran is the source of a copy or a move.
C23_OnlyNewFilesRelocated ==
    Spotify => \A m \in moves : m.src \notin DOMAIN lib0

\* C24: in the cratedigger download_spotify_content, with keep_library = True no
\* step of the relocation changes the files under the tool's output directory or
\* their contents, and each file relocated without error is at its destination
\* with its content; with keep_library = False each file relocated without error
\* is gone from its source path and is at its destination with its content; both
\* in the flat and in the nested layout.
CratediggerRelocating == variant = "cratedigger" /\ fpc \in {"audio", "images", "return"}
C24_CopyKeepsMoveTakes ==
    [][ /\ (CratediggerRelocating /\ keep_library) => lib' = lib
        /\ (variant = "cratedigger") =>
              \A m \in moves' :
                  m.outcome = "ok" =>
                      /\ m.dest \in DOMAIN tgt'
                      /\ tgt'[m.dest] = LibContent(m.src)
                      /\ (m.src \in DOMAIN lib') <=> keep_library ]_vars
C24_Witness ==
    /\ variant = "cratedigger"
    /\ fpc = "done"
    /\ ~keep_library
    /\ flat_structure
    /\ \E m \in moves : m.outcome = "ok" /\ Len(m.src) = 2 /\ m.src \notin DOMAIN lib
    /\ \E m \in moves : m.outcome = "ok" /\ m.src = <<CoverJpg>>

\* C25 (as claimed): in the flat layout of the cratedigger download_spotify_content
\* two different new audio files never get the same destination, and a new audio
\* file the loop has passed was copied or moved unless its destination was already
\* in the target before the call.
C25_FlatDestinationsDistinct ==
    (variant = "cratedigger" /\ flat_structure /\ Diffed) =>
        /\ \A f, g \in new_audio_files : f # g => Basename(f) # Basename(g)
        /\ \A f \in new_audio_files \ todo_audio :
               \/ \E m \in moves : m.src = f
               \/ PathExists(tgt0, <<Basename(f)>>)

\* C26 (as claimed): the extractor download_spotify_content returns True whenever
\* the tool exited with code 0 and a new audio file was moved into the target
\* without error, and returns False only when the tool failed, its output
\* directory is missing, no new audio file appeared, or no file was moved.
C26_TrueWhenAudioMoved ==
    (variant = "extractor" /\ fpc = "done") =>
        /\ (return_code = 0 /\ \E m \in moves : m.outcome = "ok" /\ m.src \in new_audio_files)
              => ret = TRUE
        /\ ret = FALSE =>
              \/ return_code # 0
              \/ ~libExists
              \/ new_audio_files = {}
              \/ \A m \in moves : m.outcome # "ok"
-----------------------------------------------------------------------------
(* Properties of the scripts, checked under SpecScript *)

\* C20 (as claimed): whichever script runs and wherever the interrupt arrives, the
\* process exits with code 1 after the short message; a script that runs to its
\* end without an interrupt or an error exits with code 0.
C20_InterruptExitsWithOne ==
    spos = "exited" =>
        /\ interrupted => (exit_code = 1 /\ message = CanceledMsg)
        /\ (~interrupted /\ message = NoMessage /\ ~CatchesInterrupt(script)) => exit_code = 0

\* The step of the loop that the p-th entry of trace must be: the k-th link is
\* called, returns, and is followed by a wait, for k = 1, 2, ...
TurnKinds == <<"call", "return", "wait">>
ExpectedEntry(p) == <<TurnKinds[((p - 1) % 3) + 1], ((p - 1) \div 3) + 1>>

\* C21: the batch driver of scrape.py handles the links one at a time and in list
\* order: the k-th link is passed to download_mp3 once, only after link k-1 has
\* returned and its wait is over; no wait follows the last link; successful +
\* failed counts the links that have returned, and all of them at the end.
C21_SequentialBatch ==
    script = "cratedigger/scrape.py" =>
        /\ \A p \in 1..Len(trace) : trace[p] = ExpectedEntry(p)
        /\ \A p \in 1..Len(trace) : trace[p][1] = "wait" => trace[p][2] < mp3_links
        /\ spos \in {"download", "wait", "end"} => successful + failed = link_i
        /\ spos = "downloading" => successful + failed = link_i - 1
        /\ (spos = "end" /\ download /\ mp3_links > 0) =>
               /\ successful + failed = mp3_links
               /\ Len(trace) = 3 * mp3_links - 1
C21_Witness ==
    /\ script = "cratedigger/scrape.py"
    /\ spos = "end"
    /\ mp3_links = MaxLinks
    /\ successful = 1
    /\ failed = MaxLinks - 1
    /\ trace[Len(trace)] = <<"return", MaxLinks>>
\* main() of a spotify.py returned (it was not ended by an exception or an interrupt)
MainReturned == CatchesInterrupt(script) /\ spos = "exited" /\ message = NoMessage
ConflictingArgs == keep_ogg /\ use_ogg
UrlRejected == ~skip_download /\ url_kind \in {"missing", "invalid"}

\* C30: in main() of the spotify scripts the conversion is started only with
\* arguments that passed both checks, after the download was skipped or returned
\* True, and only if use_ogg or (skip_download and not keep_ogg); conflicting
\* --keep-ogg/--use-ogg or a missing or invalid URL end main with 1 before the
\* external tool or a conversion is started, a failed download ends it with 1
\* without a conversion, and in every other case main returns 0.
C30_ConversionLastAndReturnCodes ==
    CatchesInterrupt(script) =>
        /\ converted =>
              /\ ~ConflictingArgs
              /\ ~UrlRejected
              /\ skip_download \/ success = "True"
              /\ use_ogg \/ (skip_download /\ ~keep_ogg)
        /\ tool_started => (~ConflictingArgs /\ ~UrlRejected /\ ~skip_download)
        /\ MainReturned =>
              IF ConflictingArgs \/ UrlRejected
              THEN exit_code = 1 /\ ~tool_started /\ ~converted
              ELSE IF ~skip_download /\ success = "False"
              THEN exit_code = 1 /\ tool_started /\ ~converted
              ELSE /\ exit_code = 0
                   /\ converted <=> (use_ogg \/ (skip_download /\ ~keep_ogg))
                   /\ tool_started <=> ~skip_download
C30_Witness ==
    /\ MainReturned
    /\ exit_code = 0
    /\ use_ogg
    /\ ~skip_download
    /\ tool_started
    /\ success = "True"
    /\ converted
-----------------------------------------------------------------------------
(* Properties of the conversion, checked under SpecConvert *)

EncoderFailed(c) == c.enc \in {"failed", "failed_partial"}
InvalidOutput(c) == EncoderExitedZero(c.enc) /\ ~c.valid
\* The original is deleted only when asked for, after the encoder exited with 0
\* and with the .mp3 there at that moment
RemovedOnlyWhenConverted(c) ==
    c.removed => (remove_originals /\ EncoderExitedZero(c.enc) /\ c.mp3_there)

\* C28 (as claimed): in every variant of convert_ogg_to_mp3 the original is deleted
\* only when remove_original is True, the encoder exited successfully and the .mp3
\* exists at that moment; it is left in place when the encoder fails, when (spotify
\* variants) the output is missing or smaller than 1024 bytes, and when the .mp3
\* already existed before the call.
C28_OriginalLeftInEveryVariant ==
    \A c \in conversions :
        /\ RemovedOnlyWhenConverted(c)
        /\ EncoderFailed(c) => ~c.removed
        /\ (cvariant # "convert" /\ InvalidOutput(c)) => ~c.removed
        /\ c.existed => ~c.removed

\* C28 (amended): as claimed, except that only the spotify variants leave the
\* original in place because the .mp3 already existed (they return before the
\* encoder is run); convert_ogg_to_mp3 of convert.py runs the encoder over the
\* existing .mp3 and then deletes the original as after any conversion.
C28_OriginalLeftUnlessConverted ==
    \A c \in conversions :
        /\ RemovedOnlyWhenConverted(c)
        /\ EncoderFailed(c) => ~c.removed
        /\ (cvariant # "convert" /\ InvalidOutput(c)) => ~c.removed
        /\ (cvariant # "convert" /\ c.existed) => (~c.removed /\ c.enc = "none")
        /\ (cvariant = "convert" /\ c.existed /\ remove_originals
              /\ EncoderExitedZero(c.enc) /\ ~c.raised) => c.removed
C28_Witness ==
    /\ remove_originals
    /\ \E c \in conversions : c.removed /\ c.existed /\ cvariant = "convert"
    /\ \E c \in conversions : c.removed /\ ~c.existed /\ c.enc = "ok_valid"

\* C29: in the spotify variants, once convert_all_ogg_files has returned True a
\* find_unconverted_files of the same directory made right after returns the
\* empty list, whether the originals were removed or kept; and a further
\* convert_all_ogg_files call finds nothing to convert, starts the encoder zero
\* times and returns True.
C29_NothingLeftAfterTrue ==
    cvariant \in {"cratedigger", "extractor"} =>
        /\ (cpc = "checked" /\ cret = TRUE) => found = <<>>
        /\ (ccalls > 1 /\ prev_cret = TRUE) =>
              /\ encoder_runs = 0
              /\ cpc \in {"start", "returned", "checked"}
              /\ cpc # "start" => (total = 0 /\ cret = TRUE)
C29_Witness ==
    /\ cvariant = "cratedigger"
    /\ ccalls = 2
    /\ prev_cret = TRUE
    /\ cpc = "checked"
    /\ found = <<>>
    /\ remove_originals
    /\ DOMAIN cdir = { <<BOGGUpper>>, <<BMp3>> }
    /\ cdir[<<BMp3>>] = Mp3Content(MinMp3Size)
====
